---------------------------- MODULE Spec2Model ----------------------------
(***************************************************************************)
(* A model of tea-house-election: the action codec (actions.rs), the       *)
(* tally and office assignment (election.rs) and the ballot-collection     *)
(* protocol of the event handler (main.rs).                                *)
(*                                                                         *)
(* Strings the program parses or formats are sequences of one-character    *)
(* strings, so that formatting and parsing are computed, not assumed.      *)
(***************************************************************************)
EXTENDS Integers, Sequences, FiniteSets, TLC

\* ------------------------------------------------------------------------
\* Bounds of the model
\* ------------------------------------------------------------------------

\* The codec is exercised on ids 0..MaxId (two-digit ids included).
MaxId == 12

\* tally is run on the ballots of up to NumTallyVoters voters, ranks 0..MaxRank.
NumTallyVoters == 2

MaxRank == 2

\* assign is run on elections of NumAssignNames candidates and up to
\* MaxOffices offices.
NumAssignNames == 3

MaxOffices == 3

\* The protocol is run by NumUsers users, who start up to MaxVotes vote
\* sessions on up to MaxElections elections, over MaxTime hours.
NumUsers == 2

MaxVotes == 2

MaxElections == 1

\* How many election commands a run of commands holds.
MaxCommands == 2

MaxTime == 1

\* A run of persists lasts MaxBackupHours hours, in up to MaxSkippedHours of
\* which persist does not run.
MaxBackupHours == 26

MaxSkippedHours == 1

\* Up to MaxFaults calls to the outside (a message, a write) fail in a run.
MaxFaults == 1

\* NumTasks tasks serve up to MaxLockEvents events at the same time.
NumTasks == 2

MaxLockEvents == 3

\* A run of persists on the files: the dataset changes up to MaxRevisions
\* times, persist runs up to MaxPersists times, the clock goes on up to
\* MaxClockSteps times.
MaxRevisions == 3

MaxPersists == 4

MaxClockSteps == 3

\* ------------------------------------------------------------------------
\* Text helpers
\* ------------------------------------------------------------------------

\* Option and a panic (an abort of the task), as values.
None == [kind |-> "None"]

Some(v) == [kind |-> "Some", value |-> v]

Panic == [kind |-> "Panic"]

DigitChars == <<"0", "1", "2", "3", "4", "5", "6", "7", "8", "9">>

IsDigit(c) == \E i \in 1..10 : DigitChars[i] = c

DigitValue(c) == (CHOOSE i \in 1..10 : DigitChars[i] = c) - 1

\* The decimal text of a usize, as serde_json and Display write it.
RECURSIVE ToDigits(_)
ToDigits(n) ==
    IF n < 10 THEN <<DigitChars[n + 1]>>
    ELSE ToDigits(n \div 10) \o <<DigitChars[(n % 10) + 1]>>

\* The value of a run of decimal digits.
RECURSIVE DigitsValue(_)
DigitsValue(s) ==
    IF s = <<>> THEN 0
    ELSE 10 * DigitsValue(SubSeq(s, 1, Len(s) - 1)) + DigitValue(s[Len(s)])

\* ------------------------------------------------------------------------
\* actions.rs: Action, encode, decode
\* ------------------------------------------------------------------------

ElectionActionType == {"InitiateVote", "GetResult"}

VoteActionType ==
    {"ConfirmInitiateVote", "SelectVote", "SkipVote", "CancelVote", "VoidBallot"}

ElectionAction(id, ty) == [branch |-> "Election", id |-> id, ty |-> ty]

VoteAction(id, ty) == [branch |-> "Vote", id |-> id, ty |-> ty]

\* The name serde gives the id field of each branch's struct.
IdField(branch) == IF branch = "Election" THEN "election_id" ELSE "vote_id"

\* The variant names serde accepts for the `ty` field of each branch.
TypesOf(branch) == IF branch = "Election" THEN ElectionActionType ELSE VoteActionType

DecodeError == [branch |-> "DecodeError"]

\* serde_json::to_string(&Action): {"<branch>":{"<id field>":<id>,"ty":"<ty>"}},
\* written here as its lexemes: variant tag, id field, the id's decimal
\* digits, "ty", the kind's name.
encode(a) ==
    <<a.branch, IdField(a.branch)>> \o ToDigits(a.id) \o <<"ty", a.ty>>

\* The digits of a token: what lies between the id field and the "ty" key.
TokenDigits(s) == SubSeq(s, 3, Len(s) - 2)

\* A JSON unsigned number: a non-empty run of digits with no leading zero.
IsJsonNumber(d) ==
    /\ Len(d) >= 1
    /\ \A i \in 1..Len(d) : IsDigit(d[i])
    /\ (Len(d) > 1 => d[1] # "0")

\* decode reading the first digit of the id only.
decodeOneDigitId(s) ==
    IF /\ Len(s) >= 5
       /\ s[1] \in {"Election", "Vote"}
       /\ s[2] = IdField(s[1])
       /\ IsJsonNumber(TokenDigits(s))
       /\ s[Len(s) - 1] = "ty"
       /\ s[Len(s)] \in TypesOf(s[1])
    THEN [branch |-> s[1], id |-> DigitValue(s[3]), ty |-> s[Len(s)]]
    ELSE DecodeError

\* decode taking any branch's kind for a branch's kind, and any text for a
\* kind of the Election branch.
decodeAnyKind(s) ==
    IF /\ Len(s) >= 5
       /\ s[1] \in {"Election", "Vote"}
       /\ s[2] = IdField(s[1])
       /\ IsJsonNumber(TokenDigits(s))
       /\ s[Len(s) - 1] = "ty"
    THEN [branch |-> s[1], id |-> DigitsValue(TokenDigits(s)), ty |-> s[Len(s)]]
    ELSE DecodeError

\* serde_json::from_str::<Action>: the tag must name a branch, the fields be
\* the branch's own, the id a number and the kind one of the branch's kinds.
decode(s) ==
    IF /\ Len(s) >= 5
       /\ s[1] \in {"Election", "Vote"}
       /\ s[2] = IdField(s[1])
       /\ IsJsonNumber(TokenDigits(s))
       /\ s[Len(s) - 1] = "ty"
       /\ s[Len(s)] \in TypesOf(s[1])
    THEN [branch |-> s[1], id |-> DigitsValue(TokenDigits(s)), ty |-> s[Len(s)]]
    ELSE DecodeError

\* Every action the program can construct with an id of 0..MaxId.
ConstructibleActions ==
    {ElectionAction(id, ty) : id \in 0..MaxId, ty \in ElectionActionType}
        \cup {VoteAction(id, ty) : id \in 0..MaxId, ty \in VoteActionType}

\* ------------------------------------------------------------------------
\* election.rs: Name, Region, Ballot, Election
\* ------------------------------------------------------------------------

UpperChars ==
    <<"A", "B", "C", "D", "E", "F", "G", "H", "I", "J", "K", "L", "M",
      "N", "O", "P", "Q", "R", "S", "T", "U", "V", "W", "X", "Y", "Z">>

LowerChars ==
    <<"a", "b", "c", "d", "e", "f", "g", "h", "i", "j", "k", "l", "m",
      "n", "o", "p", "q", "r", "s", "t", "u", "v", "w", "x", "y", "z">>

\* The byte of a character (ASCII), which orders Rust's String.
CharCode(c) ==
    IF \E i \in 1..26 : UpperChars[i] = c
    THEN 64 + (CHOOSE i \in 1..26 : UpperChars[i] = c)
    ELSE IF \E i \in 1..26 : LowerChars[i] = c
    THEN 96 + (CHOOSE i \in 1..26 : LowerChars[i] = c)
    ELSE IF IsDigit(c) THEN 48 + DigitValue(c)
    ELSE CASE c = " " -> 32
           [] c = "+" -> 43
           [] c = "," -> 44
           [] c = "-" -> 45
           [] c = ";" -> 59
           [] OTHER -> 127

\* Ord for Name (a String): bytewise lexicographic.
RECURSIVE NameLess(_, _)
NameLess(x, y) ==
    IF y = <<>> THEN FALSE
    ELSE IF x = <<>> THEN TRUE
    ELSE IF CharCode(Head(x)) # CharCode(Head(y))
    THEN CharCode(Head(x)) < CharCode(Head(y))
    ELSE NameLess(Tail(x), Tail(y))

\* The keys of a BTreeMap<Name, _> in iteration order, and Vec<Name>::sort.
RECURSIVE SortedNames(_)
SortedNames(S) ==
    IF S = {} THEN <<>>
    ELSE LET m == CHOOSE x \in S : \A y \in S \ {x} : NameLess(x, y)
         IN <<m>> \o SortedNames(S \ {m})

\* The keys of a BTreeMap<UserId, _> in iteration order.
RECURSIVE SortedIds(_)
SortedIds(S) ==
    IF S = {} THEN <<>>
    ELSE LET m == CHOOSE x \in S : \A y \in S : x <= y
         IN <<m>> \o SortedIds(S \ {m})

\* The elements of a sequence.
Range(s) == {s[i] : i \in 1..Len(s)}

\* map.insert(k, v), and *map.entry(k).or_default() += v
Insert(m, k, v) == [x \in DOMAIN m \cup {k} |-> IF x = k THEN v ELSE m[x]]

AddTo(m, k, v) == Insert(m, k, (IF k \in DOMAIN m THEN m[k] ELSE 0) + v)

Remove(m, k) == [x \in DOMAIN m \ {k} |-> m[x]]

EmptyMap == [x \in {} |-> 0]

\* Election::new
new(owner, offices) ==
    [owner |-> owner, offices |-> offices, candidates |-> EmptyMap,
     reserved_offices |-> <<>>, ballots |-> EmptyMap]

\* reserve_office without its limit.
reserve_officeNoLimit(e, region) ==
    [ok |-> TRUE,
     election |-> [e EXCEPT !.reserved_offices = Append(@, region)]]

\* Election::reserve_office: whether the office was reserved, and the election.
reserve_office(e, region) ==
    IF Len(e.reserved_offices) + 1 > e.offices
    THEN [ok |-> FALSE, election |-> e]
    ELSE [ok |-> TRUE,
          election |-> [e EXCEPT !.reserved_offices = Append(@, region)]]

\* Election::add_candidate
add_candidate(e, name, region) ==
    [e EXCEPT !.candidates = Insert(@, name, region)]

\* Election::vote
vote(e, user_id, name, rank) ==
    [e EXCEPT !.ballots =
        Insert(@, user_id,
               Insert(IF user_id \in DOMAIN @ THEN @[user_id] ELSE EmptyMap,
                      name, rank))]

\* ------------------------------------------------------------------------
\* election.rs: tally
\* ------------------------------------------------------------------------

RECURSIVE Gcd(_, _)
Gcd(a, b) == IF b = 0 THEN a ELSE Gcd(b, a % b)

NaN == [num |-> 0, den |-> 0]

Infinity == [num |-> 1, den |-> 0]

\* v as f32 / n as f32. The quotient of two small integers is the f32 nearest
\* the exact fraction, and distinct fractions of such integers round to
\* distinct, equally ordered floats: the score is kept as the fraction in
\* lowest terms. 0/0 is NaN.
F32Div(v, n) ==
    IF n = 0 THEN (IF v = 0 THEN NaN ELSE Infinity)
    ELSE [num |-> v \div Gcd(v, n), den |-> n \div Gcd(v, n)]

IsNaN(x) == x = NaN

\* f32::partial_cmp(a, b) = Some(Less | Equal), for a and b that are not NaN.
F32Le(a, b) ==
    IF a.den = 0 THEN b.den = 0
    ELSE IF b.den = 0 THEN TRUE
    ELSE a.num * b.den <= b.num * a.den

\* The inner loop of tally over one ballot's (name, rank) pairs.
RECURSIVE TallyVotes(_, _, _)
TallyVotes(acc, votes, names) ==
    IF names = <<>> THEN acc
    ELSE LET name == Head(names)
             rank == votes[name]
         IN TallyVotes(
                [results |-> AddTo(acc.results, name, rank),
                 votes |-> AddTo(acc.votes, name, IF rank > 0 THEN 1 ELSE 0)],
                votes, Tail(names))

\* The outer loop of tally over ballots.values().
RECURSIVE TallyBallots(_, _, _)
TallyBallots(acc, ballots, users) ==
    IF users = <<>> THEN acc
    ELSE TallyBallots(
            TallyVotes(acc, ballots[Head(users)],
                       SortedNames(DOMAIN ballots[Head(users)])),
            ballots, Tail(users))

\* tally without the normalisation: the score is the sum of the ranks.
ScoresSum(e) ==
    LET acc == TallyBallots([results |-> EmptyMap, votes |-> EmptyMap],
                            e.ballots, SortedIds(DOMAIN e.ballots))
    IN {[score |-> F32Div(acc.results[n], 1), name |-> n] :
            n \in DOMAIN acc.results}

\* The (score, name) pairs tally collects from its two maps.
Scores(e) ==
    LET acc == TallyBallots([results |-> EmptyMap, votes |-> EmptyMap],
                            e.ballots, SortedIds(DOMAIN e.ballots))
    IN {[score |-> F32Div(acc.results[n],
                          IF n \in DOMAIN acc.votes THEN acc.votes[n] ELSE 0),
         name |-> n] : n \in DOMAIN acc.results}

\* Every order of a finite set.
RECURSIVE Orders(_)
Orders(S) ==
    IF S = {} THEN {<<>>}
    ELSE UNION {{<<x>> \o s : s \in Orders(S \ {x})} : x \in S}

IsAscending(s) == \A i \in 1..(Len(s) - 1) : F32Le(s[i].score, s[i + 1].score)

\* The pairs left in the order of their names, unshuffled.
shuffleByName(pairs) ==
    LET names == SortedNames({p.name : p \in pairs})
    IN {[i \in 1..Len(names) |-> CHOOSE p \in pairs : p.name = names[i]]}

\* results.shuffle(&mut rng) on the pairs collected from the map: every
\* order of them can come out.
shuffle(pairs) == Orders(pairs)

\* A pair put into a sorted list behind the pairs that are not greater.
RECURSIVE InsertSorted(_, _)
InsertSorted(sorted, p) ==
    IF sorted = <<>> THEN <<p>>
    ELSE IF F32Le(sorted[Len(sorted)].score, p.score) THEN Append(sorted, p)
    ELSE Append(InsertSorted(SubSeq(sorted, 1, Len(sorted) - 1), p),
                sorted[Len(sorted)])

\* results.sort_by(|a, b| a.0.partial_cmp(&b.0).unwrap()): a stable sort by
\* ascending score, pairs of equal score staying in the order they had.
RECURSIVE sort_by(_)
sort_by(list) ==
    IF list = <<>> THEN <<>>
    ELSE InsertSorted(sort_by(SubSeq(list, 1, Len(list) - 1)), list[Len(list)])

\* What tally can return: Some(list), or Panic. The pairs are shuffled and
\* then sorted. The sort's comparison unwraps partial_cmp, which is
\* None for NaN: a sort of two or more pairs compares every pair with
\* another, and panics when one of them is NaN.
tally(e) ==
    LET pairs == Scores(e)
    IN IF Cardinality(pairs) >= 2 /\ \E p \in pairs : IsNaN(p.score)
       THEN {Panic}
       ELSE {Some(sort_by(t)) : t \in shuffle(pairs)}

\* ------------------------------------------------------------------------
\* election.rs: assign, run
\* ------------------------------------------------------------------------

\* reserved_offices.iter().position(|x| x == region), 0 when there is none.
Position(s, region) ==
    IF \E i \in 1..Len(s) : s[i] = region
    THEN CHOOSE i \in 1..Len(s) : s[i] = region /\ \A j \in 1..(i - 1) : s[j] # region
    ELSE 0

\* Vec::remove(ix)
RemoveAt(s, ix) == SubSeq(s, 1, ix - 1) \o SubSeq(s, ix + 1, Len(s))

\* assign walking the results from the lowest score upward.
RECURSIVE assignLoopLowestFirst(_, _, _, _, _)
assignLoopLowestFirst(e, results, reserved_offices, unreserved, officers) ==
    IF ~(Len(officers) < e.offices) THEN Some(SortedNames(Range(officers)))
    ELSE IF results = <<>> THEN None
    ELSE LET candidate == results[1].name
             rest == Tail(results)
         IN IF candidate \notin DOMAIN e.candidates THEN Panic
            ELSE LET region == e.candidates[candidate]
                     ix == Position(reserved_offices, region)
                 IN IF ix # 0
                    THEN assignLoopLowestFirst(e, rest, RemoveAt(reserved_offices, ix),
                                    unreserved, Append(officers, candidate))
                    ELSE IF unreserved > 0
                    THEN assignLoopLowestFirst(e, rest, reserved_offices,
                                    unreserved - 1, Append(officers, candidate))
                    ELSE assignLoopLowestFirst(e, rest, reserved_offices,
                                    unreserved, officers)

\* assign that forgets to use up the unreserved office it gives away.
RECURSIVE assignLoopNoDecrement(_, _, _, _, _)
assignLoopNoDecrement(e, results, reserved_offices, unreserved, officers) ==
    IF ~(Len(officers) < e.offices) THEN Some(SortedNames(Range(officers)))
    ELSE IF results = <<>> THEN None
    ELSE LET candidate == results[Len(results)].name
             rest == SubSeq(results, 1, Len(results) - 1)
         IN IF candidate \notin DOMAIN e.candidates THEN Panic
            ELSE LET region == e.candidates[candidate]
                     ix == Position(reserved_offices, region)
                 IN IF ix # 0
                    THEN assignLoopNoDecrement(e, rest, RemoveAt(reserved_offices, ix),
                                    unreserved, Append(officers, candidate))
                    ELSE IF unreserved > 0
                    THEN assignLoopNoDecrement(e, rest, reserved_offices,
                                    unreserved, Append(officers, candidate))
                    ELSE assignLoopNoDecrement(e, rest, reserved_offices,
                                    unreserved, officers)

\* assign that gives up at the first candidate it cannot place.
RECURSIVE assignLoopNoSkip(_, _, _, _, _)
assignLoopNoSkip(e, results, reserved_offices, unreserved, officers) ==
    IF ~(Len(officers) < e.offices) THEN Some(SortedNames(Range(officers)))
    ELSE IF results = <<>> THEN None
    ELSE LET candidate == results[Len(results)].name
             rest == SubSeq(results, 1, Len(results) - 1)
         IN IF candidate \notin DOMAIN e.candidates THEN Panic
            ELSE LET region == e.candidates[candidate]
                     ix == Position(reserved_offices, region)
                 IN IF ix # 0
                    THEN assignLoopNoSkip(e, rest, RemoveAt(reserved_offices, ix),
                                    unreserved, Append(officers, candidate))
                    ELSE IF unreserved > 0
                    THEN assignLoopNoSkip(e, rest, reserved_offices,
                                    unreserved - 1, Append(officers, candidate))
                    ELSE None

\* The while loop of assign: results, reserved_offices, unreserved and
\* officers are the function's locals.
RECURSIVE assignLoop(_, _, _, _, _)
assignLoop(e, results, reserved_offices, unreserved, officers) ==
    IF ~(Len(officers) < e.offices) THEN Some(SortedNames(Range(officers)))
    ELSE IF results = <<>> THEN None
    ELSE LET candidate == results[Len(results)].name
             rest == SubSeq(results, 1, Len(results) - 1)
         IN IF candidate \notin DOMAIN e.candidates THEN Panic
            ELSE LET region == e.candidates[candidate]
                     ix == Position(reserved_offices, region)
                 IN IF ix # 0
                    THEN assignLoop(e, rest, RemoveAt(reserved_offices, ix),
                                    unreserved, Append(officers, candidate))
                    ELSE IF unreserved > 0
                    THEN assignLoop(e, rest, reserved_offices,
                                    unreserved - 1, Append(officers, candidate))
                    ELSE assignLoop(e, rest, reserved_offices,
                                    unreserved, officers)

\* Election::assign: None, or the officers sorted by name. The subtraction
\* cannot underflow in an election reserve_office built; were it to, the
\* debug build panics.
assign(e, results) ==
    IF e.offices < Len(e.reserved_offices) THEN Panic
    ELSE assignLoop(e, results, e.reserved_offices,
                    e.offices - Len(e.reserved_offices), <<>>)

\* Election::run: what it can return.
run(e) ==
    {IF results = Panic THEN Panic ELSE assign(e, results.value) : results \in tally(e)}

\* ------------------------------------------------------------------------
\* main.rs: the election command's text arguments
\* ------------------------------------------------------------------------

\* The index of the first c in s, 0 when there is none.
IndexOf(s, c) ==
    IF \E i \in 1..Len(s) : s[i] = c
    THEN CHOOSE i \in 1..Len(s) : s[i] = c /\ \A j \in 1..(i - 1) : s[j] # c
    ELSE 0

\* str::split(c): the pieces between the separators ("" gives one empty piece).
RECURSIVE Split(_, _)
Split(s, c) ==
    LET i == IndexOf(s, c)
    IN IF i = 0 THEN <<s>>
       ELSE <<SubSeq(s, 1, i - 1)>> \o Split(SubSeq(s, i + 1, Len(s)), c)

\* str::split_once(c): None, or the text before and after the first c.
SplitOnce(s, c) ==
    LET i == IndexOf(s, c)
    IN IF i = 0 THEN None
       ELSE Some(<<SubSeq(s, 1, i - 1), SubSeq(s, i + 1, Len(s))>>)

\* str::trim
RECURSIVE TrimStart(_)
TrimStart(s) == IF s # <<>> /\ Head(s) = " " THEN TrimStart(Tail(s)) ELSE s

RECURSIVE TrimEnd(_)
TrimEnd(s) ==
    IF s # <<>> /\ s[Len(s)] = " " THEN TrimEnd(SubSeq(s, 1, Len(s) - 1)) ELSE s

Trim(s) == TrimEnd(TrimStart(s))

\* str::parse::<usize>: an optional "+" and one or more digits.
ParseUsize(s) ==
    LET d == IF s # <<>> /\ Head(s) = "+" THEN Tail(s) ELSE s
    IN IF d # <<>> /\ \A i \in 1..Len(d) : IsDigit(d[i])
       THEN Some(DigitsValue(d))
       ELSE None

\* The first loop of the election command going on after a refusal.
RECURSIVE ReserveOfficesUnchecked(_, _)
ReserveOfficesUnchecked(e, offices) ==
    IF offices = <<>> THEN Some(e)
    ELSE ReserveOfficesUnchecked(reserve_office(e, Trim(Head(offices))).election,
                                 Tail(offices))

\* The first loop of the election command: reserve_office for every piece of
\* reserved_offices, None at the first refusal.
RECURSIVE ReserveOffices(_, _)
ReserveOffices(e, offices) ==
    IF offices = <<>> THEN Some(e)
    ELSE LET r == reserve_office(e, Trim(Head(offices)))
         IN IF ~r.ok THEN None ELSE ReserveOffices(r.election, Tail(offices))

\* The second loop: add_candidate for every piece of candidates, None at the
\* first piece without a ";".
RECURSIVE AddCandidateList(_, _)
AddCandidateList(e, candidates) ==
    IF candidates = <<>> THEN Some(e)
    ELSE LET parts == SplitOnce(Head(candidates), ";")
         IN IF parts = None THEN None
            ELSE AddCandidateList(
                    add_candidate(e, Trim(parts.value[1]), Trim(parts.value[2])),
                    Tail(candidates))

\* The election the command builds from its arguments: Some(election), or
\* the error it returns.
TooManyReservations == [kind |-> "Too many office reservations"]

CouldNotSplit == [kind |-> "Could not split candidate"]

BuildFromCommand(author, offices, reserved_offices, candidates) ==
    LET reserved == ReserveOffices(new(author, offices), Split(reserved_offices, ","))
    IN IF reserved = None THEN TooManyReservations
       ELSE LET added == AddCandidateList(reserved.value, Split(candidates, ","))
            IN IF added = None THEN CouldNotSplit ELSE added

\* ------------------------------------------------------------------------
\* main.rs: VoteMap, ElectionMap
\* ------------------------------------------------------------------------

\* TimeDelta::hours(1), the clock counting hours.
Hour == 1

\* ElectionId::next and VoteId::next returning the id without counting on.
nextStuck(id) == [ret |-> id, value |-> id]

\* ElectionId::next, VoteId::next: the id returned and the counter after it.
next(id) == [ret |-> id, value |-> id + 1]

\* VoteMap::expire keeping the sessions whose expiry is now.
expireLate(vs, t) == [v \in {x \in DOMAIN vs : vs[x].expires_at >= t} |-> vs[v]]

\* VoteMap::expire: the sessions whose expiry is after now.
expire(vs, t) == [v \in {x \in DOMAIN vs : vs[x].expires_at > t} |-> vs[v]]

\* VoteMap::start: the session stored under the next vote id.
start(vs, vote_id, election, user, t) ==
    Insert(vs, vote_id,
           [user |-> user, election |-> election,
            partial_ballot |-> EmptyMap, expires_at |-> t + Hour])

\* ElectionMap::get / get_mut: the id of the election an action resolves to,
\* through the session for a vote action; None when the session or the
\* election is missing.
ResolveElection(action, es, vs) ==
    IF action.branch = "Election"
    THEN (IF action.id \in DOMAIN es THEN Some(action.id) ELSE None)
    ELSE IF action.id \notin DOMAIN vs THEN None
    ELSE IF vs[action.id].election \in DOMAIN es
    THEN Some(vs[action.id].election)
    ELSE None

\* What a handler shows in the session's message.
ConfirmPrompt == [kind |-> "Confirm"]

RankPrompt(name) == [kind |-> "Rank", name |-> name]

ThankYou == [kind |-> "ThankYou"]

VoteDeleted == [kind |-> "VoteDeleted"]

ResponseDeleted == [kind |-> "ResponseDeleted"]

\* Where a handler's call to the outside fails: nowhere, at the calls that
\* show, edit or acknowledge the session's message, at the edit of the
\* election's message, or at persist.
FailPoints == {"none", "send", "update", "persist"}

\* ------------------------------------------------------------------------
\* State
\* ------------------------------------------------------------------------

VARIABLES
    codec,      \* a run of the codec: the action, its token, what decode returned
    tallyRun,   \* a run of tally: the election and what tally returned
    assignRun,  \* a run of assign: the election, the results and what it returned
    commandRun, \* a run of election commands: their arguments, and how many ran
    backupRun,  \* a run of persists: the hour it began, the hours persist ran in
    lockRun,    \* the tasks that serve events under the lock of GlobalState
    snapshotRun,        \* a run of persists on the data file and its four backup folders
    revoteRun,  \* a run of voting sessions: which were confirmed, which stored a ballot
    now,        \* the clock, in hours
    next_election_id,   \* ElectionMap.next_election_id
    elections,  \* ElectionMap.elections: election id -> Election
    next_vote_id,       \* VoteMap.next_vote_id
    votes,      \* VoteMap.votes: vote id -> VoteInProgress
    confirming, \* the vote ids whose message last showed the confirmation prompt
    version,    \* the variant of Elections the guild's dataset is held in
    disk,       \* elections.json: the dataset last written by persist
    hourly,     \* bku/hourly: the bucket keys its files are named by
    last,       \* the last operation: who asked what, and what came back
    faults      \* how many calls to the outside have failed

functions == <<codec, tallyRun, assignRun>>

runs == <<codec, tallyRun, assignRun, commandRun, backupRun, lockRun,
         snapshotRun, revoteRun>>

store == <<now, next_election_id, elections, next_vote_id, votes, confirming,
           version, disk, hourly, last, faults>>

vars == <<codec, tallyRun, assignRun, commandRun, backupRun, lockRun,
          snapshotRun, revoteRun, now, next_election_id, elections,
          next_vote_id, votes, confirming, version, disk, hourly, last,
          faults>>

Idle == [pc |-> "idle"]

\* The guild's Elections as persist writes it: the variant's tag and the
\* variant's fields.
Dataset(v, ne, es, nv, vs) ==
    [version |-> v, next_election_id |-> ne, elections |-> es,
     next_vote_id |-> nv, votes |-> vs]

\* The variants of Elections.
V1 == "1"

V2 == "2"

\* The order of the paths of two backups of one folder: that of the texts
\* of their keys, a text before the texts it begins.
RECURSIVE PathLess(_, _)
PathLess(a, b) ==
    IF a = <<>> THEN b # <<>>
    ELSE IF b = <<>> THEN FALSE
    ELSE IF Head(a) = Head(b) THEN PathLess(Tail(a), Tail(b))
    ELSE DigitValue(Head(a)) < DigitValue(Head(b))

\* persist_folder: the folder after the data file is copied to the file of
\* this key and, when it holds more than keep files, the first of them in
\* the order of their paths are removed.
persist_folder(folder, key, keep) ==
    LET existing == folder \cup {ToDigits(key)}
        count == Cardinality(existing)
    IN IF count > keep
       THEN {f \in existing :
                Cardinality({g \in existing : PathLess(g, f)}) >= count - keep}
       ELSE existing

\* How many hourly backups persist keeps.
HourlyKeep == 24

\* GlobalData::persist succeeding: the data file and the hourly backups
\* after it, the key of the hour being the clock's hours.
persist(data) ==
    [disk |-> data, hourly |-> persist_folder(hourly, now, HourlyKeep)]

\* What `last` records of an operation: the kind of action, who sent it, the
\* id it named, the kind of interaction, what was returned and what was shown.
Operation(op, actor, id, kind, result, shown) ==
    [op |-> op, actor |-> actor, id |-> id, kind |-> kind, result |-> result,
     shown |-> shown]

\* main at the hour h: the default dataset (no file to load), persisted at
\* startup.
StoreAt(h) ==
    /\ now = h
    /\ next_election_id = 0
    /\ elections = EmptyMap
    /\ next_vote_id = 0
    /\ votes = EmptyMap
    /\ confirming = {}
    /\ version = V2
    /\ disk = Dataset(V2, 0, EmptyMap, 0, EmptyMap)
    /\ hourly = {ToDigits(h)}
    /\ last = Operation("main", 0, 0, None, "Ok", None)
    /\ faults = 0

StoreInit == StoreAt(0)

\* ------------------------------------------------------------------------
\* The codec on every constructible action
\* ------------------------------------------------------------------------

CodecInit ==
    /\ \E a \in ConstructibleActions :
        codec = [pc |-> "start", action |-> a, token |-> <<>>, decoded |-> None]
    /\ tallyRun = Idle
    /\ assignRun = Idle
    /\ commandRun = Idle
    /\ backupRun = Idle
    /\ lockRun = Idle
    /\ revoteRun = Idle
    /\ snapshotRun = Idle
    /\ StoreInit

Encode ==
    /\ codec.pc = "start"
    /\ codec' = [codec EXCEPT !.pc = "encoded", !.token = encode(codec.action)]
    /\ UNCHANGED <<tallyRun, assignRun, commandRun, backupRun, lockRun, revoteRun,
                   snapshotRun, store>>

Decode ==
    /\ codec.pc = "encoded"
    /\ codec' = [codec EXCEPT !.pc = "decoded", !.decoded = decode(codec.token)]
    /\ UNCHANGED <<tallyRun, assignRun, commandRun, backupRun, lockRun, revoteRun,
                   snapshotRun, store>>

CodecNext == Encode \/ Decode

SpecCodec == CodecInit /\ [][CodecNext]_vars

\* ------------------------------------------------------------------------
\* tally on elections with every small set of ballots, and on the elections
\* of test_tally
\* ------------------------------------------------------------------------

NameA == <<"a">>

NameB == <<"b">>

NameC == <<"c">>

NameD == <<"d">>

NameE == <<"e">>

CandidateNames == <<NameA, NameB, NameC, NameD, NameE>>

AMER == <<"A", "M", "E", "R">>

EMEA == <<"E", "M", "E", "A">>

Regions == {AMER, EMEA}

TallyNames == {NameA, NameB}

\* A ballot ranks some of the names, each 0..MaxRank.
TallyBallotSet ==
    UNION {[S -> 0..MaxRank] : S \in (SUBSET TallyNames) \ {{}}}

\* election.vote(user, name, rank) for every entry of a test's ballot list.
RECURSIVE VoteAll(_, _, _)
VoteAll(e, user, ballot) ==
    IF ballot = <<>> THEN e
    ELSE VoteAll(vote(e, user, Head(ballot)[1], Head(ballot)[2]), user, Tail(ballot))

RECURSIVE VoteBallots(_, _, _)
VoteBallots(e, i, ballotList) ==
    IF ballotList = <<>> THEN e
    ELSE VoteBallots(VoteAll(e, i, Head(ballotList)), i + 1, Tail(ballotList))

\* test_tally's four cases.
TestSingleVoter ==
    VoteBallots(new(1, 1), 1, << <<<<NameA, 1>>, <<NameB, 2>>, <<NameC, 3>>>> >>)

TestMultipleVoters ==
    VoteBallots(new(1, 1), 1,
        << <<<<NameA, 1>>, <<NameB, 2>>, <<NameC, 3>>>>,
           <<<<NameA, 4>>, <<NameB, 5>>, <<NameC, 6>>>>,
           <<<<NameA, 7>>, <<NameB, 8>>, <<NameC, 9>>>> >>)

TestVoteTies ==
    VoteBallots(new(1, 1), 1,
        << <<<<NameA, 1>>, <<NameB, 2>>, <<NameC, 3>>, <<NameD, 4>>>>,
           <<<<NameA, 2>>, <<NameB, 3>>, <<NameC, 4>>, <<NameD, 1>>>>,
           <<<<NameA, 3>>, <<NameB, 4>>, <<NameC, 1>>, <<NameD, 2>>>>,
           <<<<NameA, 4>>, <<NameB, 1>>, <<NameC, 2>>, <<NameD, 3>>>> >>)

TestAllowsAbstention ==
    VoteBallots(new(1, 1), 1,
        << <<<<NameA, 2>>, <<NameB, 2>>, <<NameC, 2>>, <<NameD, 2>>>>,
           <<<<NameA, 2>>, <<NameB, 0>>, <<NameC, 2>>, <<NameD, 0>>>>,
           <<<<NameA, 2>>, <<NameB, 2>>, <<NameC, 2>>, <<NameD, 2>>>>,
           <<<<NameA, 2>>, <<NameB, 2>>, <<NameC, 0>>, <<NameD, 0>>>>,
           <<<<NameA, 2>>, <<NameB, 2>>, <<NameC, 0>>, <<NameD, 2>>>> >>)

TallyTests ==
    {TestSingleVoter, TestMultipleVoters, TestVoteTies, TestAllowsAbstention}

TallyElections ==
    {[new(1, 1) EXCEPT !.ballots = b] :
        b \in UNION {[V -> TallyBallotSet] : V \in SUBSET (1..NumTallyVoters)}}
    \cup TallyTests

TallyInit ==
    /\ \E e \in TallyElections :
        tallyRun = [pc |-> "start", election |-> e, out |-> None]
    /\ codec = Idle
    /\ assignRun = Idle
    /\ commandRun = Idle
    /\ backupRun = Idle
    /\ lockRun = Idle
    /\ revoteRun = Idle
    /\ snapshotRun = Idle
    /\ StoreInit

Tally ==
    /\ tallyRun.pc = "start"
    /\ \E out \in tally(tallyRun.election) :
        tallyRun' = [tallyRun EXCEPT !.pc = "done", !.out = out]
    /\ UNCHANGED <<codec, assignRun, commandRun, backupRun, lockRun, revoteRun,
                   snapshotRun, store>>

SpecTally == TallyInit /\ [][Tally]_vars

\* ------------------------------------------------------------------------
\* assign on every small election and result list, and on test_assign's
\* ------------------------------------------------------------------------

AssignNames == {CandidateNames[i] : i \in 1..NumAssignNames}

RECURSIVE ReserveAll(_, _)
ReserveAll(e, regions) ==
    IF regions = <<>> THEN e
    ELSE ReserveAll(reserve_office(e, Head(regions)).election, Tail(regions))

RECURSIVE AddCandidates(_, _, _)
AddCandidates(e, names, regionOf) ==
    IF names = <<>> THEN e
    ELSE AddCandidates(add_candidate(e, Head(names), regionOf[Head(names)]),
                       Tail(names), regionOf)

\* Election::new, then reserve_office for each reservation, then
\* add_candidate for each candidate, as test_assign and the election
\* command build an election.
BuildElection(offices, reservations, regionOf) ==
    AddCandidates(ReserveAll(new(1, offices), reservations),
                  SortedNames(DOMAIN regionOf), regionOf)

SeqsUpTo(S, n) == UNION {[1..k -> S] : k \in 0..n}

AssignElections ==
    {BuildElection(offices, reservations, regionOf) :
        offices \in 0..MaxOffices,
        reservations \in SeqsUpTo(Regions, MaxOffices),
        regionOf \in [AssignNames -> Regions]}

\* A result list of tally's shape: distinct names, scores ascending.
ResultLists(names) ==
    {[i \in 1..Len(s) |-> [score |-> F32Div(i, 1), name |-> s[i]]] :
        s \in UNION {Orders(S) : S \in SUBSET names}}

TestTallyList ==
    <<[score |-> F32Div(5, 1), name |-> NameA],
      [score |-> F32Div(7, 1), name |-> NameB],
      [score |-> F32Div(8, 1), name |-> NameD],
      [score |-> F32Div(9, 1), name |-> NameE],
      [score |-> F32Div(10, 1), name |-> NameC]>>

\* test_assign's two cases.
TestLowVoteReserved ==
    BuildElection(4, <<AMER>>,
        [n \in Range(CandidateNames) |-> IF n = NameA THEN AMER ELSE EMEA])

TestSimple ==
    BuildElection(4, <<AMER, EMEA>>,
        [n \in Range(CandidateNames) |->
            IF n \in {NameA, NameE} THEN AMER ELSE EMEA])

AssignInit ==
    /\ \/ \E e \in AssignElections, r \in ResultLists(AssignNames) :
            assignRun = [pc |-> "start", election |-> e, results |-> r, out |-> None]
       \/ \E e \in {TestLowVoteReserved, TestSimple} :
            assignRun = [pc |-> "start", election |-> e,
                         results |-> TestTallyList, out |-> None]
    /\ codec = Idle
    /\ tallyRun = Idle
    /\ commandRun = Idle
    /\ backupRun = Idle
    /\ lockRun = Idle
    /\ revoteRun = Idle
    /\ snapshotRun = Idle
    /\ StoreInit

Assign ==
    /\ assignRun.pc = "start"
    /\ assignRun' = [assignRun EXCEPT
                        !.pc = "done",
                        !.out = assign(assignRun.election, assignRun.results)]
    /\ UNCHANGED <<codec, tallyRun, commandRun, backupRun, lockRun, revoteRun,
                   snapshotRun, store>>

SpecAssign == AssignInit /\ [][Assign]_vars

\* ------------------------------------------------------------------------
\* The interaction handlers of main.rs on the store
\* ------------------------------------------------------------------------

Users == 1..NumUsers

\* Who runs the election command.
Authors == {1}

\* The arguments of the election command: one office reserved out of two,
\* an empty reservation text, more reservations than offices, and a
\* candidate without a ";".
ElectionCommands ==
    { [offices |-> 2, reserved_offices |-> <<" ", "A">>,
       candidates |-> <<"a", ";", "A", ",", " ", "b", ";", "E">>],
      [offices |-> 1, reserved_offices |-> <<"A", ",", "E">>,
       candidates |-> <<"a", ";", "A">>],
      [offices |-> 1, reserved_offices |-> <<"A">>,
       candidates |-> <<"a", "-", "A">>] }

\* Custom ids that are no token of an action: an id that is no number, a
\* kind of the other branch, a kind no branch has, and another program's
\* custom id.
ForeignTokens ==
    { <<"Vote", "vote_id", "x", "ty", "SkipVote">>,
      <<"Vote", "vote_id", "0", "ty", "GetResult">>,
      <<"Election", "election_id", "0", "ty", "Recount">>,
      <<"page", "2">> }

\* The custom ids of the component interactions: the tokens of the actions
\* on the ids the bounds allow, and text that is no token.
EventTokens ==
    {encode(ElectionAction(id, ty)) : id \in 0..(MaxElections - 1), ty \in ElectionActionType}
        \cup {encode(VoteAction(id, ty)) : id \in 0..(MaxVotes - 1), ty \in VoteActionType}
        \cup ForeignTokens

\* The values a string select carries.
SelectValues == {<<"5">>, <<"x">>}

\* ComponentInteractionDataKind: a button, or a string select and values[0].
Button == [select |-> FALSE]

StringSelect(v) == [select |-> TRUE, value |-> v]

EventKinds == {Button} \cup {StringSelect(v) : v \in SelectValues}

\* What a handler leaves behind, shows and returns.
Outcome(es, vs, nv, shown, result) ==
    [elections |-> es, votes |-> vs, next_vote_id |-> nv, shown |-> shown,
     result |-> result]

\* initiate_vote, for the election's vote button and for the confirmation.
initiate_vote(actor, action, fail) ==
    LET live == expire(votes, now)
        confirmed == action.branch = "Vote"
        vote_id == IF confirmed THEN action.id ELSE next(next_vote_id).ret
        nv == IF confirmed THEN next_vote_id ELSE next(next_vote_id).value
        vs == IF confirmed THEN live
              ELSE start(live, vote_id, action.id, actor, now)
        found == ResolveElection(action, elections, vs)
    IN IF found = None THEN Outcome(elections, vs, nv, None, "NotFound")
       ELSE LET id == found.value
                election == elections[id]
            IN IF actor \in DOMAIN election.ballots /\ ~confirmed
               THEN (IF fail = "send"
                     THEN Outcome(elections, vs, nv, None, "SendFailed")
                     ELSE Outcome(elections, vs, nv, ConfirmPrompt, "Ok"))
               ELSE LET es == [elections EXCEPT ![id].ballots = Remove(@, actor)]
                    IN IF DOMAIN election.candidates = {}
                       THEN Outcome(es, vs, nv, None, "NoCandidates")
                       ELSE IF fail = "send"
                       THEN Outcome(es, vs, nv, None, "SendFailed")
                       ELSE Outcome(es, vs, nv,
                                RankPrompt(SortedNames(DOMAIN election.candidates)[1]),
                                "Ok")

\* VoteMap::save_ballot merging the partial ballot into the stored ballot.
save_ballotMerge(es, vs, vote_id) ==
    LET id == vs[vote_id].election
        user == vs[vote_id].user
        old == IF user \in DOMAIN es[id].ballots THEN es[id].ballots[user]
               ELSE EmptyMap
        pb == vs[vote_id].partial_ballot
        merged == [n \in DOMAIN old \cup DOMAIN pb |->
                      IF n \in DOMAIN pb THEN pb[n] ELSE old[n]]
    IN [elections |-> [es EXCEPT ![id].ballots = Insert(@, user, merged)],
        votes |-> [vs EXCEPT ![vote_id].partial_ballot = EmptyMap]]

\* VoteMap::save_ballot: the partial ballot is swapped for an empty one and
\* stored under the session's user.
save_ballot(es, vs, vote_id) ==
    LET id == vs[vote_id].election
    IN [elections |-> [es EXCEPT ![id].ballots =
                          Insert(@, vs[vote_id].user, vs[vote_id].partial_ballot)],
        votes |-> [vs EXCEPT ![vote_id].partial_ballot = EmptyMap]]

\* The names of a sorted list that a partial ballot does not rank.
RECURSIVE Unranked(_, _)
Unranked(names, partial_ballot) ==
    IF names = <<>> THEN <<>>
    ELSE (IF Head(names) \in DOMAIN partial_ballot THEN <<>> ELSE <<Head(names)>>)
            \o Unranked(Tail(names), partial_ballot)

\* The rank an interaction registers for the first unranked candidate:
\* Some(rank), None when it registers nothing, Panic for a select value that
\* does not parse.
RegisteredRank(action, kind) ==
    IF kind.select
    THEN (IF ParseUsize(kind.value) = None THEN Panic ELSE ParseUsize(kind.value))
    ELSE IF action.ty = "SkipVote" THEN Some(0)
    ELSE None

\* select_vote
select_vote(actor, action, kind, fail) ==
    LET live == expire(votes, now)
        found == ResolveElection(action, elections, live)
    IN IF found = None
       THEN Outcome(elections, live, next_vote_id, None, "NotFound")
       ELSE
       LET election == elections[found.value]
           session == live[action.id]
           unranked == Unranked(SortedNames(DOMAIN election.candidates),
                                session.partial_ballot)
           rank == RegisteredRank(action, kind)
       IN IF unranked # <<>> /\ rank = Panic
          THEN Outcome(elections, live, next_vote_id, None, "ParseFailed")
          ELSE
          LET partial_ballot ==
                  IF unranked # <<>> /\ rank # None
                  THEN Insert(session.partial_ballot, unranked[1], rank.value)
                  ELSE session.partial_ballot
              vs == [live EXCEPT ![action.id].partial_ballot = partial_ballot]
              needs_vote == Len(unranked) >= 2
              saved == save_ballot(elections, vs, action.id)
          IN IF fail = "send"
             THEN Outcome(elections, vs, next_vote_id, None, "SendFailed")
             ELSE IF needs_vote
             THEN Outcome(elections, vs, next_vote_id, RankPrompt(unranked[2]),
                          "Ok")
             ELSE IF fail = "update"
             THEN Outcome(saved.elections, saved.votes, next_vote_id, ThankYou,
                          "UpdateFailed")
             ELSE Outcome(saved.elections, Remove(saved.votes, action.id),
                          next_vote_id, ThankYou, "Ok")

\* stop_vote removing the ballot on CancelVote too.
stop_voteAlwaysVoid(actor, action, fail) ==
    LET live == expire(votes, now)
        found == ResolveElection(action, elections, live)
    IN IF found = None
       THEN Outcome(elections, live, next_vote_id, None, "NotFound")
       ELSE
       LET es == [elections EXCEPT ![found.value].ballots = Remove(@, actor)]
       IN IF fail = "send"
          THEN Outcome(es, live, next_vote_id, None, "SendFailed")
          ELSE IF fail = "update"
          THEN Outcome(es, live, next_vote_id, VoteDeleted, "UpdateFailed")
          ELSE Outcome(es, Remove(live, action.id), next_vote_id, VoteDeleted,
                       "Ok")

\* stop_vote, for CancelVote and VoidBallot.
stop_vote(actor, action, fail) ==
    LET live == expire(votes, now)
        found == ResolveElection(action, elections, live)
    IN IF found = None
       THEN Outcome(elections, live, next_vote_id, None, "NotFound")
       ELSE
       LET void == action.ty = "VoidBallot"
           es == IF void
                 THEN [elections EXCEPT ![found.value].ballots = Remove(@, actor)]
                 ELSE elections
           shown == IF void THEN VoteDeleted ELSE ResponseDeleted
       IN IF fail = "send"
          THEN Outcome(es, live, next_vote_id, None, "SendFailed")
          ELSE IF fail = "update"
          THEN Outcome(es, live, next_vote_id, shown, "UpdateFailed")
          ELSE Outcome(es, Remove(live, action.id), next_vote_id, shown, "Ok")

\* What get_result answers.
OnlyTheCreator == [kind |-> "Only the creator of an election can view the results"]

Elected(list) == [kind |-> "The following candidates have been elected", list |-> list]

DidNotComplete == [kind |-> "Election did not complete"]

Answer(result, shown) == [result |-> result, shown |-> shown]

\* What get_result answers the owner: the text for what run returns.
ResultAnswers(election) ==
    { IF out = Panic THEN Answer("Panic", None)
      ELSE IF out = None THEN Answer("Ok", DidNotComplete)
      ELSE Answer("Ok", Elected(out.value)) : out \in run(election) }

\* get_result answering every actor as it answers the owner.
get_resultAnyActor(actor, action) ==
    IF version # V2 THEN {Answer("NotUpgraded", None)}
    ELSE IF action.id \notin DOMAIN elections THEN {Answer("NotFound", None)}
    ELSE ResultAnswers(elections[action.id])

\* get_result: the answers it can give.
get_result(actor, action) ==
    IF version # V2 THEN {Answer("NotUpgraded", None)}
    ELSE IF action.id \notin DOMAIN elections THEN {Answer("NotFound", None)}
    ELSE IF elections[action.id].owner # actor THEN {Answer("Ok", OnlyTheCreator)}
    ELSE ResultAnswers(elections[action.id])

\* The results that report a failed call to the outside, and the count of
\* them.
FailureResults == {"SendFailed", "UpdateFailed", "PersistFailed"}

Faulty(result) ==
    IF result \in FailureResults
    THEN faults < MaxFaults /\ faults' = faults + 1
    ELSE faults' = faults

\* The points of a handler where a call can still fail.
Failing(points) == IF faults < MaxFaults THEN points ELSE {"none"}

\* What `last` keeps of an interaction: of one that stopped before it
\* changed or answered anything, the result only.
Recorded(actor, action, kind, result, shown) ==
    IF result \in {"NotFound", "ParseFailed"}
    THEN Operation("event", 0, 0, None, result, None)
    ELSE Operation(action.ty, actor, action.id, kind, result, shown)

\* event_handler undoing the handler's changes when persist fails.
HandledRollback(actor, action, kind, out, fail) ==
    LET result == IF out.result = "Ok" /\ fail = "persist" THEN "PersistFailed"
                  ELSE out.result
        kept == IF result = "PersistFailed"
                THEN Outcome(elections, votes, next_vote_id, out.shown, out.result)
                ELSE out
    IN /\ Faulty(result)
       /\ elections' = kept.elections
       /\ votes' = kept.votes
       /\ next_vote_id' = kept.next_vote_id
       /\ confirming' = IF out.shown = ConfirmPrompt
                        THEN confirming \cup {next_vote_id}
                        ELSE IF out.shown \in {None, ResponseDeleted}
                        THEN confirming
                        ELSE confirming \ {action.id}
       /\ version' = V2
       /\ LET written == persist(Dataset(V2, next_election_id, out.elections,
                                         out.next_vote_id, out.votes))
          IN /\ disk' = IF result = "Ok" THEN written.disk ELSE disk
             /\ hourly' = IF result = "Ok" THEN written.hourly ELSE hourly
       /\ last' = Recorded(actor, action, kind, result, out.shown)
       /\ UNCHANGED <<now, next_election_id, runs>>

\* event_handler around a handler holding the write lock, on the dataset:
\* the handler's stores stay as it left them, and persist runs when it
\* returned Ok.
HandledStore(actor, action, kind, out, fail) ==
    LET result == IF out.result = "Ok" /\ fail = "persist" THEN "PersistFailed"
                  ELSE out.result
    IN /\ Faulty(result)
       /\ elections' = out.elections
       /\ votes' = out.votes
       /\ next_vote_id' = out.next_vote_id
       /\ confirming' = IF out.shown = ConfirmPrompt
                        THEN confirming \cup {next_vote_id}
                        ELSE IF out.shown \in {None, ResponseDeleted}
                        THEN confirming
                        ELSE confirming \ {action.id}
       /\ version' = V2
       /\ LET written == persist(Dataset(V2, next_election_id, out.elections,
                                         out.next_vote_id, out.votes))
          IN /\ disk' = IF result = "Ok" THEN written.disk ELSE disk
             /\ hourly' = IF result = "Ok" THEN written.hourly ELSE hourly
       /\ last' = Recorded(actor, action, kind, result, out.shown)

\* event_handler around a handler holding the write lock: the dataset as the
\* handler and persist leave it, and nothing else.
Handled(actor, action, kind, out, fail) ==
    /\ HandledStore(actor, action, kind, out, fail)
    /\ UNCHANGED <<now, next_election_id, runs>>

\* election: the command's handler.
election(author, cmd, fail) ==
    LET built == BuildFromCommand(author, cmd.offices, cmd.reserved_offices,
                                  cmd.candidates)
        live == expire(votes, now)
        ok == built.kind = "Some"
        election_id == next(next_election_id)
        es == IF ok /\ fail # "send"
              THEN Insert(elections, election_id.ret, built.value)
              ELSE elections
        ne == IF ok THEN election_id.value ELSE next_election_id
        result == IF ~ok THEN built.kind
                  ELSE IF fail = "send" THEN "SendFailed"
                  ELSE IF fail = "persist" THEN "PersistFailed"
                  ELSE "Ok"
    IN /\ Faulty(result)
       /\ votes' = live
       /\ elections' = es
       /\ next_election_id' = ne
       /\ version' = V2
       /\ LET written == persist(Dataset(V2, ne, es, next_vote_id, live))
          IN /\ disk' = IF result = "Ok" THEN written.disk ELSE disk
             /\ hourly' = IF result = "Ok" THEN written.hourly ELSE hourly
       /\ last' = Operation("election", author, next_election_id, None,
                            result, None)
       /\ UNCHANGED <<now, next_vote_id, confirming, functions>>

\* The election command.
ElectionCommand ==
    /\ next_election_id < MaxElections
    /\ \E author \in Authors, cmd \in ElectionCommands,
          fail \in Failing({"none", "send", "persist"}) :
            election(author, cmd, fail)
    /\ UNCHANGED <<commandRun, backupRun, lockRun, revoteRun, snapshotRun>>

\* A click on an election's vote button.
InitiateVote ==
    \E token \in EventTokens :
        LET action == decode(token)
        IN /\ action.branch = "Election"
           /\ action.ty = "InitiateVote"
           /\ next_vote_id < MaxVotes
           /\ \E actor \in Users, fail \in Failing({"none", "send", "persist"}) :
                Handled(actor, action, Button,
                        initiate_vote(actor, action, fail), fail)

\* A click on the confirmation's button.
ConfirmInitiateVote ==
    \E token \in EventTokens :
        LET action == decode(token)
        IN /\ action.branch = "Vote"
           /\ action.ty = "ConfirmInitiateVote"
           /\ \E actor \in Users, fail \in Failing({"none", "send", "persist"}) :
                Handled(actor, action, Button,
                        initiate_vote(actor, action, fail), fail)

\* A choice in the rank menu, or a click on the skip button.
SelectVote ==
    \E token \in EventTokens :
        LET action == decode(token)
        IN /\ action.branch = "Vote"
           /\ action.ty \in {"SelectVote", "SkipVote"}
           /\ \E actor \in Users, fail \in Failing(FailPoints),
                 kind \in IF action.ty = "SkipVote" THEN {Button} ELSE EventKinds :
                Handled(actor, action, kind,
                        select_vote(actor, action, kind, fail), fail)

\* A click on the cancel button or on the void button.
StopVote ==
    \E token \in EventTokens :
        LET action == decode(token)
        IN /\ action.branch = "Vote"
           /\ action.ty \in {"CancelVote", "VoidBallot"}
           /\ \E actor \in Users, fail \in Failing(FailPoints) :
                Handled(actor, action, Button, stop_vote(actor, action, fail),
                        fail)

\* A click on an election's results button: under the read lock, nothing of
\* the store is written.
GetResult ==
    \E token \in EventTokens :
        LET action == decode(token)
        IN /\ action.branch = "Election"
           /\ action.ty = "GetResult"
           /\ \E actor \in Users, fail \in Failing({"none", "send"}) :
              \E answer \in get_result(actor, action) :
                LET result == IF answer.shown # None /\ fail = "send"
                              THEN "SendFailed" ELSE answer.result
                IN /\ Faulty(result)
                   /\ last' = IF result = "NotFound"
                              THEN Operation("GetResult", 0, action.id, None,
                                             result, None)
                              ELSE Operation("GetResult", actor, action.id,
                                             Button, result,
                                             IF result = "SendFailed" THEN None
                                             ELSE answer.shown)
           /\ UNCHANGED <<now, next_election_id, elections, next_vote_id,
                          votes, confirming, version, disk, hourly, runs>>

\* A component interaction whose custom id does not decode: a warning.
Undecodable ==
    \E token \in EventTokens :
        /\ decode(token) = DecodeError
        /\ last' = Operation("undecodable", 0, 0, None, "Ok", None)
        /\ UNCHANGED <<now, next_election_id, elections, next_vote_id,
                       votes, confirming, version, disk, hourly, faults, runs>>

\* An hour passes.
Tick ==
    /\ now < MaxTime
    /\ now' = now + 1
    /\ last' = Operation("tick", 0, 0, None, "Ok", None)
    /\ UNCHANGED <<next_election_id, elections, next_vote_id, votes,
                   confirming, version, disk, hourly, faults, runs>>

Init ==
    /\ codec = Idle
    /\ tallyRun = Idle
    /\ assignRun = Idle
    /\ commandRun = Idle
    /\ backupRun = Idle
    /\ lockRun = Idle
    /\ revoteRun = Idle
    /\ snapshotRun = Idle
    /\ StoreInit

Next ==
    \/ ElectionCommand
    \/ InitiateVote
    \/ ConfirmInitiateVote
    \/ SelectVote
    \/ StopVote
    \/ GetResult
    \/ Undecodable
    \/ Tick

Spec == Init /\ [][Next]_vars

\* ------------------------------------------------------------------------
\* The election command on every small text of reservations and candidates
\* ------------------------------------------------------------------------

\* reserved_offices: nothing, one region, two regions.
ReservedTexts ==
    { <<>>, <<" ", "A">>, <<"A", ",", "E">> }

\* candidates: one candidate; no ";"; no name; no region; two ";"; two
\* candidates; a second candidate without a ";".
CandidateTexts ==
    { <<"a", ";", "A">>,
      <<"a", "-", "A">>,
      <<";", "A">>,
      <<"a", ";">>,
      <<"a", ";", "A", ";", "E">>,
      <<"a", ";", "A", ",", " ", "b", ";", "E">>,
      <<"a", ";", "A", ",", "b">> }

CommandArguments ==
    [offices : 1..2, reserved_offices : ReservedTexts, candidates : CandidateTexts]

CommandInit ==
    /\ \E cmds \in [1..MaxCommands -> CommandArguments] :
        commandRun = [pc |-> 1, cmds |-> cmds]
    /\ codec = Idle
    /\ tallyRun = Idle
    /\ assignRun = Idle
    /\ backupRun = Idle
    /\ lockRun = Idle
    /\ revoteRun = Idle
    /\ snapshotRun = Idle
    /\ StoreInit

\* The next command of the run.
RunCommand ==
    /\ commandRun.pc \in DOMAIN commandRun.cmds
    /\ \E author \in Authors, fail \in Failing({"none", "send", "persist"}) :
        election(author, commandRun.cmds[commandRun.pc], fail)
    /\ commandRun' = [commandRun EXCEPT !.pc = @ + 1]
    /\ UNCHANGED <<backupRun, lockRun, revoteRun, snapshotRun>>

SpecCommand == CommandInit /\ [][RunCommand]_vars

\* ------------------------------------------------------------------------
\* persist hour after hour
\* ------------------------------------------------------------------------

\* The hours since the epoch at which a run begins: a clock that was never
\* set, the first of November 2026, and a day of January 2084.
StartHours == {0, 498192, 999980}

BackupInit ==
    /\ \E h \in StartHours :
        /\ backupRun = [pc |-> "run", start |-> h, persisted |-> {h}]
        /\ StoreAt(h)
    /\ codec = Idle
    /\ tallyRun = Idle
    /\ assignRun = Idle
    /\ commandRun = Idle
    /\ lockRun = Idle
    /\ revoteRun = Idle
    /\ snapshotRun = Idle

\* GlobalData::persist, succeeding.
Persist ==
    /\ backupRun.pc = "run"
    /\ LET written == persist(Dataset(version, next_election_id, elections,
                                      next_vote_id, votes))
       IN /\ disk' = written.disk
          /\ hourly' = written.hourly
    /\ backupRun' = [backupRun EXCEPT !.persisted = @ \cup {now}]
    /\ last' = Operation("persist", 0, 0, None, "Ok", None)
    /\ UNCHANGED <<now, next_election_id, elections, next_vote_id, votes,
                   confirming, version, faults, functions, commandRun, lockRun, revoteRun,
                   snapshotRun>>

\* An hour passes in a run of persists.
BackupTick ==
    /\ backupRun.pc = "run"
    /\ now < backupRun.start + MaxBackupHours
    /\ Cardinality((backupRun.start..now) \ backupRun.persisted) <= MaxSkippedHours
    /\ now' = now + 1
    /\ last' = Operation("tick", 0, 0, None, "Ok", None)
    /\ UNCHANGED <<next_election_id, elections, next_vote_id, votes,
                   confirming, version, disk, hourly, faults, runs>>

BackupNext == Persist \/ BackupTick

SpecBackup == BackupInit /\ [][BackupNext]_vars

\* ------------------------------------------------------------------------
\* main on a data file of either version
\* ------------------------------------------------------------------------

\* A dataset with an election that holds user 1's ballot and a session of
\* user 2 started at hour 0.
LoadedElection ==
    LET built == BuildFromCommand(1, 2, <<" ", "A">>,
                                  <<"a", ";", "A", ",", " ", "b", ";", "E">>).value
    IN vote(vote(built, 1, NameA, 1), 1, NameB, 2)

\* elections.json as an earlier run left it: no election or one, written by
\* a program of either version.
LoadedFiles ==
    {Dataset(v, 0, EmptyMap, 0, EmptyMap) : v \in {V1, V2}}
    \cup {Dataset(v, 1, Insert(EmptyMap, 0, LoadedElection),
                  1, start(EmptyMap, 0, 0, 2, 0)) : v \in {V1, V2}}

\* Before main's setup: the file is there, nothing is loaded.
LoadInit ==
    /\ \E file \in LoadedFiles : disk = file
    /\ now = 0
    /\ next_election_id = 0
    /\ elections = EmptyMap
    /\ next_vote_id = 0
    /\ votes = EmptyMap
    /\ confirming = {}
    /\ version = V2
    /\ hourly = {ToDigits(0)}
    /\ last = Operation("boot", 0, 0, None, "Ok", None)
    /\ faults = 0
    /\ codec = Idle
    /\ tallyRun = Idle
    /\ assignRun = Idle
    /\ commandRun = Idle
    /\ backupRun = Idle
    /\ lockRun = Idle
    /\ revoteRun = Idle
    /\ snapshotRun = Idle

\* Migrate for Elections: nothing.
migrate(v) == v

\* main's setup: the file is read, migrate is called and the result is
\* persisted, a failure of persist ignored.
Setup ==
    /\ last.op = "boot"
    /\ \E fail \in Failing({"none", "persist"}) :
        LET result == IF fail = "persist" THEN "PersistFailed" ELSE "Ok"
            loaded == [disk EXCEPT !.version = migrate(@)]
            written == persist(loaded)
        IN /\ Faulty(result)
           /\ version' = loaded.version
           /\ next_election_id' = loaded.next_election_id
           /\ elections' = loaded.elections
           /\ next_vote_id' = loaded.next_vote_id
           /\ votes' = loaded.votes
           /\ disk' = IF result = "Ok" THEN written.disk ELSE disk
           /\ hourly' = IF result = "Ok" THEN written.hourly ELSE hourly
           /\ last' = Operation("main", 0, 0, None, result, None)
    /\ UNCHANGED <<now, confirming, runs>>

\* A handler of another guild returns Ok and persist, which writes every
\* guild, succeeds.
OtherGuild ==
    /\ LET written == persist(Dataset(version, next_election_id, elections,
                                      next_vote_id, votes))
       IN /\ disk' = written.disk
          /\ hourly' = written.hourly
    /\ last' = Operation("other guild", 0, 0, None, "Ok", None)
    /\ UNCHANGED <<now, next_election_id, elections, next_vote_id, votes,
                   confirming, version, faults, runs>>

\* The dataset is held or stored in the older shape.
Outdated == version = V1 \/ disk.version = V1

\* The events served after setup, while the dataset is outdated.
Serving ==
    /\ last.op # "boot"
    /\ Outdated
    /\ (Next \/ OtherGuild)

LoadNext == Setup \/ Serving

SpecLoad == LoadInit /\ [][LoadNext]_vars

\* ------------------------------------------------------------------------
\* The handlers as tasks under the lock of GlobalState
\* ------------------------------------------------------------------------

\* The tasks that serve events at the same time, and how many events a run
\* serves.
Tasks == 1..NumTasks

\* Every handler taking the read guard.
LockModeReadOnly(action) == "read"

\* The lock a handler takes for an action: data.read() for GetResult,
\* data.write() for every other action and for the election command.
LockMode(action) ==
    IF action.branch = "Election" /\ action.ty = "GetResult" THEN "read"
    ELSE "write"

\* The election command as an action of a task.
CommandAction(cmd) == [branch |-> "Command", id |-> 0, ty |-> "election", cmd |-> cmd]

\* What a handler has left in the dataset at one of its points, what it has
\* shown and what it returns if it returns there.
Stage(ne, es, nv, vs, shown, result) ==
    [next_election_id |-> ne, elections |-> es, next_vote_id |-> nv,
     votes |-> vs, shown |-> shown, result |-> result]

StageOf(out) ==
    Stage(next_election_id, out.elections, out.next_vote_id, out.votes,
          out.shown, out.result)

\* The handler event_handler calls for a component action.
Handler(actor, action, kind, fail) ==
    CASE action.ty \in {"InitiateVote", "ConfirmInitiateVote"} ->
            initiate_vote(actor, action, fail)
      [] action.ty \in {"SelectVote", "SkipVote"} ->
            select_vote(actor, action, kind, fail)
      [] action.ty \in {"CancelVote", "VoidBallot"} ->
            stop_vote(actor, action, fail)

\* The election command up to ctx.send and after it.
CommandStages(author, cmd) ==
    LET built == BuildFromCommand(author, cmd.offices, cmd.reserved_offices,
                                  cmd.candidates)
        live == expire(votes, now)
        election_id == next(next_election_id)
    IN IF built.kind # "Some"
       THEN [render |-> Stage(next_election_id, elections, next_vote_id, live,
                              None, built.kind),
             update |-> Stage(next_election_id, elections, next_vote_id, live,
                              None, built.kind),
             end |-> Stage(next_election_id, elections, next_vote_id, live,
                           None, built.kind)]
       ELSE [render |-> Stage(election_id.value, elections, next_vote_id, live,
                              None, "SendFailed"),
             update |-> Stage(election_id.value,
                              Insert(elections, election_id.ret, built.value),
                              next_vote_id, live, None, "Ok"),
             end |-> Stage(election_id.value,
                           Insert(elections, election_id.ret, built.value),
                           next_vote_id, live, None, "Ok")]

\* The points of a handler that holds the write guard: what it has left when
\* it awaits the call that shows, edits or acknowledges a message, when it
\* awaits the edit of the election's message, and when it returns Ok.
Stages(actor, action, kind) ==
    IF action.branch = "Command" THEN CommandStages(actor, action.cmd)
    ELSE [render |-> StageOf(Handler(actor, action, kind, "send")),
          update |-> StageOf(Handler(actor, action, kind, "update")),
          end |-> StageOf(Handler(actor, action, kind, "none"))]

\* The events a task can be given: the component interactions and the
\* election command.
TaskActions ==
    {a \in {decode(token) : token \in EventTokens} : a # DecodeError}
        \cup {CommandAction(cmd) : cmd \in ElectionCommands}

\* The positions of a task that serves a mutating action, between the
\* acquisition of the guard and its drop.
MutatingPcs == {"held", "render", "update", "persist", "returned"}

\* The positions of a task that serves GetResult.
ReadingPcs == {"reading", "answered"}

IdleTask == [pc |-> "idle"]

\* main has loaded a file of the latest version; no task holds the lock.
LockInit ==
    /\ \E file \in {f \in LoadedFiles : f.version = V2} :
        /\ disk = file
        /\ next_election_id = file.next_election_id
        /\ elections = file.elections
        /\ next_vote_id = file.next_vote_id
        /\ votes = file.votes
    /\ now = 0
    /\ confirming = {}
    /\ version = V2
    /\ hourly = {ToDigits(0)}
    /\ last = Operation("main", 0, 0, None, "Ok", None)
    /\ faults = 0
    /\ lockRun = [writer |-> 0, readers |-> {}, turn |-> 0, served |-> 0,
                  task |-> [t \in Tasks |-> IdleTask]]
    /\ codec = Idle
    /\ tallyRun = Idle
    /\ assignRun = Idle
    /\ commandRun = Idle
    /\ backupRun = Idle
    /\ snapshotRun = Idle
    /\ revoteRun = Idle

\* What a step of a task leaves alone besides the dataset.
OthersUnchanged ==
    UNCHANGED <<now, codec, tallyRun, assignRun, commandRun, backupRun,
                snapshotRun, revoteRun>>

DatasetUnchanged ==
    UNCHANGED <<next_election_id, elections, next_vote_id, votes, version,
                disk, hourly>>

\* The dataset after a handler's point.
DatasetAt(stage) ==
    /\ next_election_id' = stage.next_election_id
    /\ elections' = stage.elections
    /\ next_vote_id' = stage.next_vote_id
    /\ votes' = stage.votes
    /\ version' = V2
    /\ UNCHANGED <<disk, hourly>>

\* data.write().await or data.read().await returning the guard to a task
\* that was given an event: a write guard when no guard is out, a read
\* guard when no write guard is out.
Acquire(t) ==
    /\ lockRun.task[t].pc = "idle"
    /\ lockRun.served < MaxLockEvents
    /\ \E action \in TaskActions, actor \in Users,
          kind \in EventKinds :
        /\ action.branch = "Command" => (actor \in Authors /\ kind = Button
                                         /\ next_election_id < MaxElections)
        /\ action.ty = "InitiateVote" => next_vote_id < MaxVotes
        /\ action.ty # "SelectVote" => kind = Button
        /\ IF LockMode(action) = "write"
           THEN /\ lockRun.writer = 0
                /\ lockRun.readers = {}
                /\ lockRun' = [lockRun EXCEPT
                        !.writer = t, !.turn = t, !.served = @ + 1,
                        !.task[t] = [pc |-> IF action.ty = "GetResult"
                                            THEN "reading" ELSE "held",
                                     actor |-> actor, action |-> action,
                                     kind |-> kind]]
           ELSE /\ lockRun.writer = 0
                /\ lockRun' = [lockRun EXCEPT
                        !.readers = @ \cup {t}, !.turn = t, !.served = @ + 1,
                        !.task[t] = [pc |-> IF action.ty = "GetResult"
                                            THEN "reading" ELSE "held",
                                     actor |-> actor, action |-> action,
                                     kind |-> kind]]
    /\ DatasetUnchanged
    /\ UNCHANGED <<confirming, last, faults>>
    /\ OthersUnchanged

\* The handler from its first read of the dataset to its first call to the
\* outside, or to the error it returns before any.
Handle(t) ==
    /\ lockRun.task[t].pc = "held"
    /\ LET task == lockRun.task[t]
           stages == Stages(task.actor, task.action, task.kind)
           calls == stages.render.result = "SendFailed"
       IN /\ DatasetAt(stages.render)
          /\ lockRun' = [lockRun EXCEPT
                !.turn = t,
                !.task[t] = [task EXCEPT !.pc = IF calls THEN "render"
                                               ELSE "returned"]
                            @@ [stages |-> stages,
                                out |-> stages.render]]
    /\ UNCHANGED <<confirming, last, faults>>
    /\ OthersUnchanged

\* The call that shows, edits or acknowledges a message returns: the handler
\* goes on to its next call or to its end, or returns the call's error.
Render(t) ==
    /\ lockRun.task[t].pc = "render"
    /\ LET task == lockRun.task[t]
           updates == task.stages.update.result = "UpdateFailed"
       IN \/ /\ faults < MaxFaults
             /\ faults' = faults + 1
             /\ DatasetUnchanged
             /\ lockRun' = [lockRun EXCEPT !.turn = t,
                                           !.task[t].pc = "returned"]
          \/ /\ faults' = faults
             /\ IF updates
                THEN /\ DatasetAt(task.stages.update)
                     /\ lockRun' = [lockRun EXCEPT
                            !.turn = t, !.task[t].pc = "update",
                            !.task[t].out = task.stages.update]
                ELSE /\ DatasetAt(task.stages.end)
                     /\ lockRun' = [lockRun EXCEPT
                            !.turn = t, !.task[t].pc = "persist",
                            !.task[t].out = task.stages.end]
    /\ UNCHANGED <<confirming, last>>
    /\ OthersUnchanged

\* update_election returns: the handler removes the session and returns Ok,
\* or returns the call's error.
Update(t) ==
    /\ lockRun.task[t].pc = "update"
    /\ LET task == lockRun.task[t]
       IN \/ /\ faults < MaxFaults
             /\ faults' = faults + 1
             /\ DatasetUnchanged
             /\ lockRun' = [lockRun EXCEPT !.turn = t,
                                           !.task[t].pc = "returned"]
          \/ /\ faults' = faults
             /\ DatasetAt(task.stages.end)
             /\ lockRun' = [lockRun EXCEPT
                    !.turn = t, !.task[t].pc = "persist",
                    !.task[t].out = task.stages.end]
    /\ UNCHANGED <<confirming, last>>
    /\ OthersUnchanged

\* data.persist("elections") after the handler returned Ok.
PersistHeld(t) ==
    /\ lockRun.task[t].pc = "persist"
    /\ \/ /\ faults < MaxFaults
          /\ faults' = faults + 1
          /\ UNCHANGED <<disk, hourly>>
          /\ lockRun' = [lockRun EXCEPT
                !.turn = t, !.task[t].pc = "returned",
                !.task[t].out.result = "PersistFailed"]
       \/ /\ faults' = faults
          /\ LET written == persist(Dataset(version, next_election_id,
                                            elections, next_vote_id, votes))
             IN /\ disk' = written.disk
                /\ hourly' = written.hourly
          /\ lockRun' = [lockRun EXCEPT !.turn = t,
                                        !.task[t].pc = "returned"]
    /\ UNCHANGED <<next_election_id, elections, next_vote_id, votes, version,
                   confirming, last>>
    /\ OthersUnchanged

\* get_result under the guard: the dataset is read, run is computed and the
\* answer is sent.
Answering(t) ==
    /\ lockRun.task[t].pc = "reading"
    /\ LET task == lockRun.task[t]
       IN \E answer \in get_result(task.actor, task.action) :
            \/ /\ answer.shown # None
               /\ faults < MaxFaults
               /\ faults' = faults + 1
               /\ lockRun' = [lockRun EXCEPT
                    !.turn = t,
                    !.task[t] = [task EXCEPT !.pc = "answered"]
                                @@ [out |-> Answer("SendFailed", None)]]
            \/ /\ faults' = faults
               /\ lockRun' = [lockRun EXCEPT
                    !.turn = t,
                    !.task[t] = [task EXCEPT !.pc = "answered"]
                                @@ [out |-> answer]]
    /\ DatasetUnchanged
    /\ UNCHANGED <<confirming, last>>
    /\ OthersUnchanged

\* The guard goes out of scope: at the end of event_handler's arm or of the
\* command, or when `?` returns an error.
Release(t) ==
    /\ lockRun.task[t].pc \in {"returned", "answered"}
    /\ LET task == lockRun.task[t]
       IN /\ lockRun' = [lockRun EXCEPT
                !.writer = IF @ = t THEN 0 ELSE @,
                !.readers = @ \ {t},
                !.turn = t,
                !.task[t] = IdleTask]
          /\ confirming' =
                IF task.pc = "answered" THEN confirming
                ELSE IF task.out.shown = ConfirmPrompt
                THEN confirming \cup {task.out.next_vote_id - 1}
                ELSE IF task.out.shown \in {None, ResponseDeleted}
                THEN confirming
                ELSE confirming \ {task.action.id}
          /\ last' = IF task.action.branch = "Command"
                     THEN Operation("election", task.actor,
                                    task.out.next_election_id, None,
                                    task.out.result, None)
                     ELSE Recorded(task.actor, task.action, task.kind,
                                   task.out.result, task.out.shown)
    /\ DatasetUnchanged
    /\ UNCHANGED faults
    /\ OthersUnchanged

LockNext ==
    \E t \in Tasks :
        \/ Acquire(t)
        \/ Handle(t)
        \/ Render(t)
        \/ Update(t)
        \/ PersistHeld(t)
        \/ Answering(t)
        \/ Release(t)

SpecLock == LockInit /\ [][LockNext]_vars

\* ------------------------------------------------------------------------
\* persist on the data file and its four backup folders
\* ------------------------------------------------------------------------

\* How many backups persist keeps in bku/history and bku/daily; in
\* bku/monthly it keeps usize::MAX, more than a folder can hold: the largest
\* number a count is compared with here.
HistoryKeep == 20

DailyKeep == 30

MonthlyKeep == 2147483647

\* The bucket keys of a timestamp in seconds.
HourKey(ts) == (ts \div 60) \div 60

DayKey(ts) == ((ts \div 60) \div 60) \div 24

MonthKey(ts) == (((ts \div 60) \div 60) \div 24) \div 28

\* persist_folder on the files of a folder, a file being its key's text and
\* its content: nothing when there is no data file; else the data file is
\* copied to the file of this key and the first files in the order of paths
\* beyond keep are removed.
CopyInto(files, src, key, keep) ==
    IF src = None THEN files
    ELSE LET copied == Insert(files, ToDigits(key), src.value)
             kept == persist_folder(DOMAIN files, key, keep)
         IN [f \in kept |-> copied[f]]

\* GlobalData::persist with all four copies made before the data file is
\* written.
persistFilesCopiesFirst(files, data, ts) ==
    [primary |-> Some(data),
     history |-> CopyInto(files.history, files.primary, ts, HistoryKeep),
     hourly |-> CopyInto(files.hourly, files.primary, HourKey(ts), HourlyKeep),
     daily |-> CopyInto(files.daily, files.primary, DayKey(ts), DailyKeep),
     monthly |-> CopyInto(files.monthly, files.primary, MonthKey(ts), MonthlyKeep)]

\* GlobalData::persist on the files: the copy into bku/history, then the
\* data file written, then the copies into bku/hourly, bku/daily and
\* bku/monthly.
persistFiles(files, data, ts) ==
    [primary |-> Some(data),
     history |-> CopyInto(files.history, files.primary, ts, HistoryKeep),
     hourly |-> CopyInto(files.hourly, Some(data), HourKey(ts), HourlyKeep),
     daily |-> CopyInto(files.daily, Some(data), DayKey(ts), DailyKeep),
     monthly |-> CopyInto(files.monthly, Some(data), MonthKey(ts), MonthlyKeep)]

\* The second a run begins at: midnight of the first of November 2026.
StartSecond == 1793491200

\* The seconds the clock goes on by between two operations: a second, an
\* hour, a day.
ClockSteps == {1, 3600, 86400}

\* No data file and no backup; the dataset in memory is at its revision 0.
SnapshotInit ==
    /\ snapshotRun =
        [pc |-> "run", time |-> StartSecond, revision |-> 0, persists |-> 0,
         ticks |-> 0,
         files |-> [primary |-> None, history |-> EmptyMap,
                    hourly |-> EmptyMap, daily |-> EmptyMap,
                    monthly |-> EmptyMap]]
    /\ codec = Idle
    /\ tallyRun = Idle
    /\ assignRun = Idle
    /\ commandRun = Idle
    /\ backupRun = Idle
    /\ lockRun = Idle
    /\ revoteRun = Idle
    /\ StoreInit

\* A handler changes the dataset in memory.
SnapshotChange ==
    /\ snapshotRun.pc = "run"
    /\ snapshotRun.revision < MaxRevisions
    /\ snapshotRun' = [snapshotRun EXCEPT !.revision = @ + 1]
    /\ UNCHANGED <<codec, tallyRun, assignRun, commandRun, backupRun,
                   lockRun, revoteRun, store>>

\* GlobalData::persist, succeeding.
SnapshotPersist ==
    /\ snapshotRun.pc = "run"
    /\ snapshotRun.persists < MaxPersists
    /\ snapshotRun' = [snapshotRun EXCEPT
            !.persists = @ + 1,
            !.files = persistFiles(@, snapshotRun.revision, snapshotRun.time)]
    /\ UNCHANGED <<codec, tallyRun, assignRun, commandRun, backupRun,
                   lockRun, revoteRun, store>>

\* Time passes.
SnapshotTick ==
    /\ snapshotRun.pc = "run"
    /\ snapshotRun.ticks < MaxClockSteps
    /\ \E d \in ClockSteps :
        snapshotRun' = [snapshotRun EXCEPT !.time = @ + d, !.ticks = @ + 1]
    /\ UNCHANGED <<codec, tallyRun, assignRun, commandRun, backupRun,
                   lockRun, revoteRun, store>>

SnapshotNext == SnapshotChange \/ SnapshotPersist \/ SnapshotTick

SpecSnapshot == SnapshotInit /\ [][SnapshotNext]_vars

\* ------------------------------------------------------------------------
\* The rank menu and the values a selection carries
\* ------------------------------------------------------------------------

\* vote_menu: the values of the options of the rank menu.
vote_menu == {<<"1">>, <<"2">>, <<"3">>, <<"4">>, <<"5">>}

\* The values a string select interaction carries: the menu's, and values
\* that are no option of the menu.
SelectTexts == vote_menu \cup {<<"0">>, <<"6">>, <<"1", "0", "0">>}

\* main has loaded a file of the latest version that holds an election with
\* a ballot and a live session.
SelectInit ==
    /\ \E file \in {f \in LoadedFiles : f.version = V2 /\ f.votes # EmptyMap} :
        /\ disk = file
        /\ next_election_id = file.next_election_id
        /\ elections = file.elections
        /\ next_vote_id = file.next_vote_id
        /\ votes = file.votes
    /\ now = 0
    /\ confirming = {}
    /\ version = V2
    /\ hourly = {ToDigits(0)}
    /\ last = Operation("main", 0, 0, None, "Ok", None)
    /\ faults = 0
    /\ codec = Idle
    /\ tallyRun = Idle
    /\ assignRun = Idle
    /\ commandRun = Idle
    /\ backupRun = Idle
    /\ lockRun = Idle
    /\ revoteRun = Idle
    /\ snapshotRun = Idle

\* A string select interaction on the rank menu's custom id, with any
\* value, or a click on the skip button.
SelectRank ==
    \E token \in EventTokens :
        LET action == decode(token)
        IN /\ action.branch = "Vote"
           /\ action.ty \in {"SelectVote", "SkipVote"}
           /\ \E actor \in Users, fail \in Failing(FailPoints),
                 kind \in IF action.ty = "SkipVote" THEN {Button}
                          ELSE {StringSelect(v) : v \in SelectTexts} :
                Handled(actor, action, kind,
                        select_vote(actor, action, kind, fail), fail)

SelectNext == ConfirmInitiateVote \/ SelectRank

SpecSelect == SelectInit /\ [][SelectNext]_vars

\* ------------------------------------------------------------------------
\* Sessions that store a ballot over a stored ballot
\* ------------------------------------------------------------------------

\* elections.json holding one election, with candidates a and b, no ballot
\* and no session.
OpenFile ==
    Dataset(V2, 1,
            Insert(EmptyMap, 0,
                   BuildFromCommand(1, 2, <<" ", "A">>,
                                    <<"a", ";", "A", ",", " ", "b", ";", "E">>).value),
            0, EmptyMap)

\* main has loaded that file; nothing has been confirmed or stored.
RevoteInit ==
    /\ disk = OpenFile
    /\ next_election_id = OpenFile.next_election_id
    /\ elections = OpenFile.elections
    /\ next_vote_id = OpenFile.next_vote_id
    /\ votes = OpenFile.votes
    /\ now = 0
    /\ confirming = {}
    /\ version = V2
    /\ hourly = {ToDigits(0)}
    /\ last = Operation("main", 0, 0, None, "Ok", None)
    /\ faults = 0
    /\ revoteRun = [pc |-> "run", received |-> {}, confirmed |-> {},
                    submitted |-> {}]
    /\ codec = Idle
    /\ tallyRun = Idle
    /\ assignRun = Idle
    /\ commandRun = Idle
    /\ backupRun = Idle
    /\ lockRun = Idle
    /\ snapshotRun = Idle

\* select_vote reaches save_ballot: the session is live, the value parses
\* if a candidate is unranked, at most one candidate was unranked, and the
\* edit of the session's message did not fail.
Saves(action, kind, fail) ==
    LET live == expire(votes, now)
        found == ResolveElection(action, elections, live)
    IN /\ action.ty \in {"SelectVote", "SkipVote"}
       /\ found # None
       /\ fail # "send"
       /\ LET unranked ==
                Unranked(SortedNames(DOMAIN elections[found.value].candidates),
                         live[action.id].partial_ballot)
          IN /\ Len(unranked) <= 1
             /\ ~(unranked # <<>> /\ RegisteredRank(action, kind) = Panic)

\* What an interaction adds to the run's record. received: the sessions
\* initiate_vote was ever called on with ConfirmInitiateVote; confirmed: those
\* of them that are live and whose voter has had no ballot stored since;
\* submitted: the sessions whose save_ballot stored a ballot for a voter who
\* has had a ballot ever since.
RevoteRecord(actor, action, kind, fail, out) ==
    LET got == action.ty = "ConfirmInitiateVote" /\ out.result # "NotFound"
        saves == Saves(action, kind, fail)
        session == votes[action.id]
        entries == IF saves
                   THEN {[user |-> session.user, election |-> session.election,
                          vote_id |-> action.id]}
                   ELSE {}
        asked == revoteRun.confirmed \cup (IF got THEN {action.id} ELSE {})
    IN [pc |-> "run",
        received |-> revoteRun.received \cup (IF got THEN {action.id} ELSE {}),
        confirmed |->
            {v \in asked \cap DOMAIN out.votes :
                ~(saves /\ out.votes[v].user = session.user
                        /\ out.votes[v].election = session.election)},
        submitted |->
            {s \in revoteRun.submitted \cup entries :
                s.user \in DOMAIN out.elections[s.election].ballots}]

\* event_handler serving a component action, and the run's record of it.
Revote(actor, action, kind, fail) ==
    LET out == Handler(actor, action, kind, fail)
    IN /\ HandledStore(actor, action, kind, out, fail)
       /\ revoteRun' = RevoteRecord(actor, action, kind, fail, out)
       /\ UNCHANGED <<now, next_election_id, codec, tallyRun, assignRun,
                      commandRun, backupRun, lockRun, snapshotRun>>

\* A click on the election's vote button.
RevoteInitiate ==
    \E token \in EventTokens :
        LET action == decode(token)
        IN /\ action.branch = "Election"
           /\ action.ty = "InitiateVote"
           /\ next_vote_id < MaxVotes
           /\ \E actor \in Users, fail \in Failing({"none", "send", "persist"}) :
                Revote(actor, action, Button, fail)

\* A click on the confirmation's button.
RevoteConfirm ==
    \E token \in EventTokens :
        LET action == decode(token)
        IN /\ action.branch = "Vote"
           /\ action.ty = "ConfirmInitiateVote"
           /\ \E actor \in Users, fail \in Failing({"none", "send", "persist"}) :
                Revote(actor, action, Button, fail)

\* A choice in the rank menu, or a click on the skip button.
RevoteSelect ==
    \E token \in EventTokens :
        LET action == decode(token)
        IN /\ action.branch = "Vote"
           /\ action.ty \in {"SelectVote", "SkipVote"}
           /\ \E actor \in Users, fail \in Failing(FailPoints),
                 kind \in IF action.ty = "SkipVote" THEN {Button} ELSE EventKinds :
                Revote(actor, action, kind, fail)

\* A click on the cancel button or on the void button.
RevoteStop ==
    \E token \in EventTokens :
        LET action == decode(token)
        IN /\ action.branch = "Vote"
           /\ action.ty \in {"CancelVote", "VoidBallot"}
           /\ \E actor \in Users, fail \in Failing(FailPoints) :
                Revote(actor, action, Button, fail)

RevoteNext == RevoteInitiate \/ RevoteConfirm \/ RevoteSelect \/ RevoteStop

SpecRevote == RevoteInit /\ [][RevoteNext]_vars

\* ------------------------------------------------------------------------
\* Claims
\* ------------------------------------------------------------------------

\* C1: decode(encode(a)) succeeds and returns a's branch, id and kind, for
\* every constructible action a.
C1_RoundTrip ==
    codec.pc = "decoded" =>
        /\ codec.decoded # DecodeError
        /\ codec.decoded.branch = codec.action.branch
        /\ codec.decoded.id = codec.action.id
        /\ codec.decoded.ty = codec.action.ty

\* A vote action with a two-digit id has been encoded and decoded.
C1_Witness ==
    /\ codec.pc = "decoded"
    /\ codec.action = VoteAction(MaxId, "SkipVote")
    /\ Len(codec.token) > 5

\* The sum of f over a finite set.
RECURSIVE SetSum(_, _)
SetSum(S, f) ==
    IF S = {} THEN 0
    ELSE LET x == CHOOSE y \in S : TRUE IN f[x] + SetSum(S \ {x}, f)

\* The names that appear on a ballot of e, the voters that ranked name n, the
\* sum of the ranks they gave and how many of them ranked n above 0.
NamesOnBallots(e) == UNION {DOMAIN e.ballots[u] : u \in DOMAIN e.ballots}

Rankers(e, n) == {u \in DOMAIN e.ballots : n \in DOMAIN e.ballots[u]}

RankSum(e, n) == SetSum(Rankers(e, n), [u \in Rankers(e, n) |-> e.ballots[u][n]])

NonAbstainers(e, n) == {u \in Rankers(e, n) : e.ballots[u][n] > 0}

\* The entries of a returned result list for name n.
EntriesFor(out, n) == {i \in 1..Len(out) : out[i].name = n}

\* Score x is the integer k.
ScoreIsInteger(x, k) == x.den # 0 /\ x.num = k * x.den

\* Score x is the quotient sum / count, count > 0.
ScoreIsQuotient(x, sum, count) == x.den # 0 /\ x.num * count = sum * x.den

\* C2 as stated, for the candidates some ballot ranked above 0: the score
\* tally reports for the candidate is the sum of the ranks the ballots gave.
C2_ScoreIsSum ==
    (tallyRun.pc = "done" /\ tallyRun.out # Panic) =>
        \A n \in NamesOnBallots(tallyRun.election) :
            NonAbstainers(tallyRun.election, n) # {} =>
                \E i \in EntriesFor(tallyRun.out.value, n) :
                    ScoreIsInteger(tallyRun.out.value[i].score,
                                   RankSum(tallyRun.election, n))

\* C2 amended: in every list tally returns, a candidate that some ballot
\* ranked above 0 has an entry whose score is the sum of the candidate's
\* ranks divided by the number of ballots that ranked the candidate above 0;
\* a ballot that abstains (rank 0) adds nothing to the sum or to the divisor
\* and does not remove the candidate.
C2_ScoreIsMeanOfNonZero ==
    (tallyRun.pc = "done" /\ tallyRun.out # Panic) =>
        \A n \in NamesOnBallots(tallyRun.election) :
            NonAbstainers(tallyRun.election, n) # {} =>
                /\ EntriesFor(tallyRun.out.value, n) # {}
                /\ \A i \in EntriesFor(tallyRun.out.value, n) :
                    ScoreIsQuotient(tallyRun.out.value[i].score,
                                    RankSum(tallyRun.election, n),
                                    Cardinality(NonAbstainers(tallyRun.election, n)))

\* tally returned for an election where a candidate was ranked above 0 by two
\* ballots or more and 0 by another.
C2_Witness ==
    /\ tallyRun.pc = "done"
    /\ tallyRun.out # Panic
    /\ \E n \in NamesOnBallots(tallyRun.election) :
        /\ Cardinality(NonAbstainers(tallyRun.election, n)) >= 2
        /\ Rankers(tallyRun.election, n) # NonAbstainers(tallyRun.election, n)

\* C3 as stated: for every election tally returns exactly one entry for each
\* candidate on a ballot, with the sum of the candidate's ranks divided by the
\* number of ballots that ranked the candidate above 0 as its score (the
\* float 0/0 where no ballot did).
C3_OneEntryWithMean ==
    tallyRun.pc = "done" =>
        /\ tallyRun.out # Panic
        /\ \A i \in 1..Len(tallyRun.out.value) :
            tallyRun.out.value[i].name \in NamesOnBallots(tallyRun.election)
        /\ \A n \in NamesOnBallots(tallyRun.election) :
            /\ Cardinality(EntriesFor(tallyRun.out.value, n)) = 1
            /\ \A i \in EntriesFor(tallyRun.out.value, n) :
                \/ /\ NonAbstainers(tallyRun.election, n) = {}
                   /\ IsNaN(tallyRun.out.value[i].score)
                \/ ScoreIsQuotient(tallyRun.out.value[i].score,
                                   RankSum(tallyRun.election, n),
                                   Cardinality(NonAbstainers(tallyRun.election, n)))

\* The candidates of a result list in the order assign considers them: from
\* the tail of the list, the highest score, downward.
WalkOrder(results) ==
    [i \in 1..Len(results) |-> results[Len(results) + 1 - i].name]

\* How many offices election e reserves for region r, and how many it leaves
\* unreserved.
ReservedFor(e, r) ==
    Cardinality({k \in 1..Len(e.reserved_offices) : e.reserved_offices[k] = r})

UnreservedOffices(e) == e.offices - Len(e.reserved_offices)

\* The i-th candidate considered finds a reserved office of their own region
\* open: fewer candidates of the region came before than it has reservations.
TakesReserved(e, w, i) ==
    Cardinality({j \in 1..(i - 1) : e.candidates[w[j]] = e.candidates[w[i]]})
        < ReservedFor(e, e.candidates[w[i]])

\* The i-th candidate considered finds no reserved office open and an
\* unreserved one left.
TakesUnreserved(e, w, i) ==
    /\ ~TakesReserved(e, w, i)
    /\ Cardinality({j \in 1..(i - 1) : ~TakesReserved(e, w, j)})
        < UnreservedOffices(e)

WalkWinners(e, results) ==
    LET w == WalkOrder(results)
    IN {w[i] : i \in {j \in 1..Len(w) :
                        TakesReserved(e, w, j) \/ TakesUnreserved(e, w, j)}}

IsSortedByName(s) == \A i \in 1..(Len(s) - 1) : NameLess(s[i], s[i + 1])

\* C4: the winners assign returns are the candidates that, considered from
\* the highest score downward, found a reserved office of their region open
\* or else an unreserved office left; they are officeCount many and sorted by
\* name. test_assign's two cases give [a, c, d, e] and [b, c, d, e].
C4_AssignWalk ==
    assignRun.pc = "done" =>
        /\ assignRun.out # Panic
        /\ assignRun.out # None =>
            /\ Range(assignRun.out.value) = WalkWinners(assignRun.election, assignRun.results)
            /\ Len(assignRun.out.value) = assignRun.election.offices
            /\ IsSortedByName(assignRun.out.value)
        /\ (assignRun.election = TestLowVoteReserved /\ assignRun.results = TestTallyList)
            => assignRun.out = Some(<<NameA, NameC, NameD, NameE>>)
        /\ (assignRun.election = TestSimple /\ assignRun.results = TestTallyList)
            => assignRun.out = Some(<<NameB, NameC, NameD, NameE>>)

\* assign returned winners, one of them a low-scoring candidate who took the
\* reserved office of their region while a higher-scoring candidate was
\* skipped.
C4_Witness ==
    /\ assignRun.pc = "done"
    /\ assignRun.out \notin {None, Panic}
    /\ \E i, j \in 1..Len(assignRun.results) :
        /\ i < j
        /\ assignRun.results[i].name \in Range(assignRun.out.value)
        /\ assignRun.results[j].name \notin Range(assignRun.out.value)

\* The regions of an election: of its candidates and of its reservations.
RegionsOf(e) ==
    {e.candidates[n] : n \in DOMAIN e.candidates} \cup Range(e.reserved_offices)

\* By how many the candidates S of region r exceed the region's reservations.
Excess(e, S, r) ==
    LET inRegion == Cardinality({n \in S : e.candidates[n] = r})
    IN IF inRegion > ReservedFor(e, r) THEN inRegion - ReservedFor(e, r) ELSE 0

TotalExcess(e, S) ==
    SetSum(RegionsOf(e), [r \in RegionsOf(e) |-> Excess(e, S, r)])

\* C5: the winners assign returns are no more than officeCount, no candidate
\* twice, and the winners beyond their regions' reserved offices, summed over
\* the regions, are no more than the unreserved offices.
C5_WithinOffices ==
    (assignRun.pc = "done" /\ assignRun.out \notin {None, Panic}) =>
        /\ Len(assignRun.out.value) <= assignRun.election.offices
        /\ Cardinality(Range(assignRun.out.value)) = Len(assignRun.out.value)
        /\ TotalExcess(assignRun.election, Range(assignRun.out.value))
            <= UnreservedOffices(assignRun.election)

\* assign returned winners of whom two or more are of one region that has
\* fewer reserved offices than winners.
C5_Witness ==
    /\ assignRun.pc = "done"
    /\ assignRun.out \notin {None, Panic}
    /\ \E r \in Regions :
        /\ ReservedFor(assignRun.election, r) >= 1
        /\ Excess(assignRun.election, Range(assignRun.out.value), r) >= 1

\* The scored candidates, and whether officeCount of them can be fitted into
\* the offices: each into a reserved office of their region or an unreserved
\* office, no office taken twice.
Scored(results) == {results[i].name : i \in 1..Len(results)}

Fits(e, S) == TotalExcess(e, S) <= UnreservedOffices(e)

FittingExists(e, results) ==
    \E S \in SUBSET Scored(results) :
        Cardinality(S) = e.offices /\ Fits(e, S)

\* C6: assign returns None (Infeasible) exactly when no officeCount scored
\* candidates can be fitted into the offices.
C6_InfeasibleIffNoFitting ==
    assignRun.pc = "done" =>
        (assignRun.out = None <=>
            ~FittingExists(assignRun.election, assignRun.results))

\* assign returned None although the scored candidates are as many as the
\* offices: a reserved office has no candidate of its region.
C6_Witness ==
    /\ assignRun.pc = "done"
    /\ assignRun.out = None
    /\ Len(assignRun.results) >= assignRun.election.offices

\* assign returned winners for an election with reserved and unreserved
\* offices and more scored candidates than offices.
C6_WitnessFeasible ==
    /\ assignRun.pc = "done"
    /\ assignRun.out \notin {None, Panic}
    /\ Len(assignRun.results) > assignRun.election.offices
    /\ Len(assignRun.election.reserved_offices) >= 1
    /\ UnreservedOffices(assignRun.election) >= 1

\* A handler that returned Ok (persist may have failed after it).
Completed(result) == result \in {"Ok", "PersistFailed"}

\* The election a session belongs to.
ElectionOf(vote_id) == elections[votes[vote_id].election]

\* The step is an InitiateVote, on an election that exists, by an actor who
\* has a ballot in it.
ReinitiateStep ==
    /\ last'.op = "InitiateVote"
    /\ last'.id \in DOMAIN elections
    /\ last'.actor \in DOMAIN elections[last'.id].ballots

\* The session an InitiateVote step creates, awaiting the actor's confirmation.
AwaitsConfirmation ==
    /\ next_vote_id \in DOMAIN votes'
    /\ votes'[next_vote_id] =
        [user |-> last'.actor, election |-> last'.id,
         partial_ballot |-> EmptyMap, expires_at |-> now + Hour]
    /\ Completed(last'.result) =>
        (last'.shown = ConfirmPrompt /\ next_vote_id \in confirming')

\* The step is a CancelVote on a live session that awaits confirmation,
\* sent by the session's voter, who has a ballot.
CancelStep ==
    /\ last'.op = "CancelVote"
    /\ last'.id \in confirming
    /\ votes[last'.id].user = last'.actor
    /\ last'.actor \in DOMAIN ElectionOf(last'.id).ballots

UnrankedBefore ==
    Unranked(SortedNames(DOMAIN ElectionOf(last'.id).candidates),
             votes[last'.id].partial_ballot)

RankOfStep == RegisteredRank([ty |-> last'.op], last'.kind)

\* The step is a SelectVote or a SkipVote that registers a rank for the one
\* candidate the session had left unranked.
AnswersLast ==
    /\ last'.op \in {"SelectVote", "SkipVote"}
    /\ Len(UnrankedBefore) = 1
    /\ RankOfStep \notin {None, Panic}

\* The session's partial ballot with the rank of the step.
CompleteBallot ==
    Insert(votes[last'.id].partial_ballot, UnrankedBefore[1], RankOfStep.value)

\* The ballot of the session's voter after the step is the complete ballot.
BallotStored ==
    LET voter == votes[last'.id].user
        ballots == elections'[votes[last'.id].election].ballots
    IN voter \in DOMAIN ballots /\ ballots[voter] = CompleteBallot

\* C8, for an interaction whose thanks reached the voter: when it answers
\* the last unanswered candidate of a session, the voter's ballot becomes
\* exactly the session's partial ballot and the session is no longer in the
\* store.
C8_CompleteStoresBallot ==
    [][(AnswersLast /\ last'.result # "SendFailed") =>
        (BallotStored /\ last'.id \notin DOMAIN votes')]_vars

\* What holds of the same step in every case: if select_vote returned Ok the
\* ballot is the partial ballot and the session is gone; if the edit of the
\* session's message failed, no election changed and the session holds the
\* complete partial ballot; if the edit of the election's message failed, the
\* ballot is stored and the session stays with an empty partial ballot, and
\* nothing is written to disk.
C8_CompleteByCases ==
    [][AnswersLast =>
        /\ Completed(last'.result) =>
            (BallotStored /\ last'.id \notin DOMAIN votes')
        /\ last'.result = "SendFailed" =>
            /\ elections' = elections
            /\ votes'[last'.id].partial_ballot = CompleteBallot
        /\ last'.result = "UpdateFailed" =>
            /\ BallotStored
            /\ votes'[last'.id].partial_ballot = EmptyMap
            /\ disk' = disk
      ]_vars

\* A voter who had a ballot has completed a second session with other ranks:
\* the stored ballot is the second one.
C8_Witness ==
    /\ last.op \in {"SelectVote", "SkipVote"}
    /\ last.result = "Ok"
    /\ last.shown = ThankYou
    /\ last.id = 1
    /\ last.id \notin DOMAIN votes
    /\ 0 \notin DOMAIN votes
    /\ \E id \in DOMAIN elections :
        /\ last.actor \in DOMAIN elections[id].ballots
        /\ elections[id].ballots[last.actor] = (NameA :> 0 @@ NameB :> 5)

\* The step is a VoidBallot on a live session.
VoidStep == last'.op = "VoidBallot"

\* The ballot of user u in election id is what it was.
SameBallot(id, u) ==
    /\ u \in DOMAIN elections'[id].ballots <=> u \in DOMAIN elections[id].ballots
    /\ u \in DOMAIN elections[id].ballots =>
        elections'[id].ballots[u] = elections[id].ballots[u]

\* C9, for a VoidBallot that stop_vote completes when no call to the outside
\* has ever failed: on a live session, it leaves the session's voter with no
\* ballot in the election, changes no other voter's ballot, and removes the
\* session from the store.
C9_VoidRemovesVotersBallot ==
    [][(VoidStep /\ last'.result = "Ok" /\ faults' = 0) =>
        LET voter == votes[last'.id].user
            id == votes[last'.id].election
        IN /\ voter \notin DOMAIN elections'[id].ballots
           /\ \A u \in Users \ {voter} : SameBallot(id, u)
           /\ last'.id \notin DOMAIN votes'
      ]_vars

\* What holds of a VoidBallot that stop_vote completes: the ballot of the one
\* who sent it is removed, no other ballot changes, the session is removed.
C9_VoidRemovesActorsBallot ==
    [][(VoidStep /\ Completed(last'.result)) =>
        LET id == votes[last'.id].election
        IN /\ last'.actor \notin DOMAIN elections'[id].ballots
           /\ \A u \in Users \ {last'.actor} : SameBallot(id, u)
           /\ last'.id \notin DOMAIN votes'
      ]_vars

\* The answers that tell of the outcome of the election.
TellsOutcome(shown) ==
    shown # None /\ shown.kind \in {Elected(<<>>).kind, DidNotComplete.kind}

\* C10: a GetResult from anyone but the owner of the election is answered
\* with the same denial whatever the ballots; a GetResult from anyone changes
\* no election, no session and no counter; only the owner is told the
\* winners or that the election did not complete.
C10_OnlyOwnerSeesResult ==
    [][last'.op = "GetResult" =>
        /\ UNCHANGED <<next_election_id, elections, next_vote_id, votes,
                       confirming, disk>>
        /\ last'.result # "NotFound" =>
            IF last'.actor # elections[last'.id].owner
            THEN \/ last'.result = "Ok" /\ last'.shown = OnlyTheCreator
                 \/ last'.result = "SendFailed" /\ last'.shown = None
            ELSE last'.result = "Ok" => TellsOutcome(last'.shown)
      ]_vars

\* A user who does not own the election has asked for its result, with
\* ballots cast, and has been denied.
C10_Witness ==
    /\ last.op = "GetResult"
    /\ last.result = "Ok"
    /\ last.id \in DOMAIN elections
    /\ last.actor # elections[last.id].owner
    /\ elections[last.id].ballots # EmptyMap
    /\ last.shown = OnlyTheCreator

\* The owner has asked for the result and has been told the winners.
C10_WitnessOwner ==
    /\ last.op = "GetResult"
    /\ last.id \in DOMAIN elections
    /\ last.actor = elections[last.id].owner
    /\ last.shown # None
    /\ last.shown.kind = Elected(<<>>).kind

\* ------------------------------------------------------------------------
\* Session expiry
\* ------------------------------------------------------------------------

\* The operations that take the write lock and call latest(), which sweeps.
SweepingOps ==
    {"election", "InitiateVote", "ConfirmInitiateVote", "SelectVote", "SkipVote",
     "CancelVote", "VoidBallot", "event"}

\* The step ends the session itself: its last rank or skip, its cancel or
\* its void, with every call to the outside before the removal succeeding.
EndsSession(id) ==
    /\ last'.op \in {"SelectVote", "SkipVote", "CancelVote", "VoidBallot"}
    /\ last'.id = id
    /\ Completed(last'.result)

\* C11: a session that start stores at time t expires at t + 1 hour and no
\* step changes the expiry of a stored session; a session whose expiry is
\* after now leaves the store only by the step that ends it; and after every
\* operation that runs the sweep no stored session has expiry <= now.
C11_ExpirySweep ==
    [][ /\ \A id \in DOMAIN votes' \ DOMAIN votes :
            votes'[id].expires_at = now + Hour
        /\ \A id \in DOMAIN votes \cap DOMAIN votes' :
            votes'[id].expires_at = votes[id].expires_at
        /\ \A id \in DOMAIN votes \ DOMAIN votes' :
            votes[id].expires_at > now => EndsSession(id)
        /\ last'.op \in SweepingOps =>
            \A id \in DOMAIN votes' : votes'[id].expires_at > now'
      ]_vars

\* An hour after session 0 was started, a vote is initiated: the sweep has
\* removed session 0, whose message still shows the rank prompt of a session
\* nobody ended, and the new session expires an hour from now.
C11_Witness ==
    /\ now = Hour
    /\ last.op = "InitiateVote"
    /\ last.result = "Ok"
    /\ DOMAIN votes = {1}
    /\ votes[1].expires_at = now + Hour
    /\ \A id \in DOMAIN elections : elections[id].ballots = EmptyMap
    /\ confirming = {}
    /\ faults = 0

\* ------------------------------------------------------------------------
\* The election command's validation
\* ------------------------------------------------------------------------

\* The command a step of a run of commands executes.
CommandOf == commandRun.cmds[commandRun.pc]

\* C12: an election command whose reserved_offices names more regions than
\* offices returns the too-many-reservations error, leaves the election map
\* and next_election_id as they were and persists nothing.
C12_TooManyCreatesNothing ==
    [][ Len(Split(CommandOf.reserved_offices, ",")) > CommandOf.offices =>
            /\ last'.result = TooManyReservations.kind
            /\ elections' = elections
            /\ next_election_id' = next_election_id
            /\ disk' = disk
      ]_vars

\* After an election was created and persisted, a command with two
\* reservations for one office has been refused.
C12_Witness ==
    /\ commandRun.pc = 3
    /\ commandRun.cmds[2].offices = 1
    /\ Len(Split(commandRun.cmds[2].reserved_offices, ",")) = 2
    /\ last.result = TooManyReservations.kind
    /\ DOMAIN elections = {0}
    /\ next_election_id = 1
    /\ disk.elections = elections

\* An entry of the candidate list that splits at ";" into exactly two
\* non-empty parts.
TwoParts(entry) ==
    LET parts == Split(entry, ";")
    IN Len(parts) = 2 /\ parts[1] # <<>> /\ parts[2] # <<>>

Entries(cmd) == Split(cmd.candidates, ",")

\* The command was rejected: an error came back and nothing was created.
Rejected ==
    /\ last'.result \in {TooManyReservations.kind, CouldNotSplit.kind}
    /\ elections' = elections
    /\ next_election_id' = next_election_id

\* C13 as stated: an election command is rejected with an error, and no
\* election is created, whenever an entry of its candidate list does not
\* split at ";" into exactly two non-empty parts.
C13_MalformedRejected ==
    [][ (\E i \in DOMAIN Entries(CommandOf) : ~TwoParts(Entries(CommandOf)[i]))
            => Rejected
      ]_vars

\* What the command does: it is rejected when an entry has no ";" (or the
\* reservations are too many), and otherwise every entry becomes a
\* candidate, named by the trimmed text before its first ";" and of the
\* region the trimmed text after it names.
C13_RejectedIffNoSeparator ==
    [][ LET cmd == CommandOf
            entries == Entries(cmd)
        IN IF \E i \in DOMAIN entries : IndexOf(entries[i], ";") = 0
           THEN Rejected
           ELSE Len(Split(cmd.reserved_offices, ",")) <= cmd.offices =>
                /\ Completed(last'.result) =>
                    /\ elections' # elections
                    /\ \A i \in DOMAIN entries :
                        LET at == IndexOf(entries[i], ";")
                            name == Trim(SubSeq(entries[i], 1, at - 1))
                        IN name \in DOMAIN elections'[next_election_id].candidates
                /\ next_election_id' = next_election_id + 1
      ]_vars

\* A command whose only candidate entry has no name has created an election
\* with a candidate of the empty name.
C13_Witness ==
    /\ commandRun.pc = 2
    /\ commandRun.cmds[1].candidates = <<";", "A">>
    /\ last.result = "Ok"
    /\ 0 \in DOMAIN elections
    /\ <<>> \in DOMAIN elections[0].candidates

\* ------------------------------------------------------------------------
\* Events whose custom id is no token
\* ------------------------------------------------------------------------

\* The tokens encode gives the actions.
ActionTokens == {encode(a) : a \in ConstructibleActions}

PersistingOps == SweepingOps \ {"event"}

\* What the handler of the step's event leaves when every call it makes to
\* the outside succeeds.
Unfailing ==
    LET op == last'.op
        actor == last'.actor
    IN CASE op = "InitiateVote" ->
                initiate_vote(actor, ElectionAction(last'.id, op), "none")
         [] op = "ConfirmInitiateVote" ->
                initiate_vote(actor, VoteAction(last'.id, op), "none")
         [] op \in {"SelectVote", "SkipVote"} ->
                select_vote(actor, VoteAction(last'.id, op), last'.kind, "none")
         [] op \in {"CancelVote", "VoidBallot"} ->
                stop_vote(actor, VoteAction(last'.id, op), "none")

\* The dataset the memory holds.
Memory == Dataset(version, next_election_id, elections, next_vote_id, votes)

\* C15: when persist fails after a handler returned Ok, the operation
\* returns the error and the memory holds what the handler left (for the
\* election command: the new election under the id it issued); and every
\* persist that succeeds writes the whole dataset the memory then holds.
C15_FailedPersistKeepsMutation ==
    [][ /\ last'.result = "PersistFailed" =>
            IF last'.op = "election"
            THEN /\ DOMAIN elections' = DOMAIN elections \cup {next_election_id}
                 /\ next_election_id' = next_election_id + 1
            ELSE /\ Unfailing.result = "Ok"
                 /\ elections' = Unfailing.elections
                 /\ votes' = Unfailing.votes
                 /\ next_vote_id' = Unfailing.next_vote_id
        /\ (last'.op \in PersistingOps /\ last'.result = "Ok") => disk' = Memory'
      ]_vars

\* A persist has failed after a vote was started, and a later operation's
\* persist has succeeded: the session of the first is in the store and on
\* disk.
C15_Witness ==
    /\ faults = 1
    /\ last.result = "Ok"
    /\ last.op = "SkipVote"
    /\ DOMAIN votes = {0}
    /\ votes[0].partial_ballot # EmptyMap
    /\ disk = Memory
    /\ hourly = {ToDigits(0)}

\* ------------------------------------------------------------------------
\* The hourly backups
\* ------------------------------------------------------------------------

\* The n greatest of a set of bucket keys.
MostRecent(keys, n) == {k \in keys : Cardinality({j \in keys : j > k}) < n}

\* The n last of a set of file names in the order of their paths.
LastByPath(names, n) ==
    {f \in names : Cardinality({g \in names : PathLess(f, g)}) < n}

\* C16 as stated: after the persists of a run, bku/hourly holds one file for
\* each of the HourlyKeep most recent of the hours persist ran in, and no
\* other file.
C16_HourlyKeepsMostRecent ==
    backupRun.pc = "run" =>
        hourly = {ToDigits(k) : k \in MostRecent(backupRun.persisted, HourlyKeep)}

\* What persist_folder keeps: one file for each hour persist ran in, up to
\* HourlyKeep of them, those whose names are the last in the order of paths.
C16_HourlyKeepsLastByPath ==
    backupRun.pc = "run" =>
        LET names == {ToDigits(k) : k \in backupRun.persisted}
        IN /\ hourly = LastByPath(names, HourlyKeep)
           /\ Cardinality(hourly) =
                IF Cardinality(backupRun.persisted) < HourlyKeep
                THEN Cardinality(backupRun.persisted) ELSE HourlyKeep

\* persist has run in more than HourlyKeep hours, and bku/hourly holds
\* HourlyKeep files, among them the file of the run's first hour.
C16_Witness ==
    /\ backupRun.pc = "run"
    /\ Cardinality(backupRun.persisted) > HourlyKeep
    /\ Cardinality(hourly) = HourlyKeep
    /\ ToDigits(backupRun.start) \in hourly

\* ------------------------------------------------------------------------
\* Datasets of the older version
\* ------------------------------------------------------------------------

\* C17 as stated: once main has loaded the data file, the dataset is held in
\* the latest shape, so that GetResult answers it also as the first event,
\* and it has the counters and maps of the file.
C17_MigratedOnLoad ==
    /\ last.op # "boot" => version = V2
    /\ last.op = "main" =>
        Memory = [disk EXCEPT !.version = V2]
    /\ last.op = "GetResult" => last.result # "NotUpgraded"

\* What the code does: every handler that takes the write lock leaves the
\* dataset in the latest shape, and setup and GetResult leave it in the
\* shape it had; the shape aside, setup holds what the file held.
C17_MigratedByWriteHandlers ==
    [][ /\ last'.op \in SweepingOps => version' = V2
        /\ last'.op \in {"main", "GetResult", "other guild"} =>
            version' = IF last'.op = "main" THEN disk.version ELSE version
        /\ last'.op = "main" =>
            [Memory' EXCEPT !.version = V2] = [disk EXCEPT !.version = V2]
      ]_vars

\* The file held a dataset of version 1 with an election, and the first
\* event after setup, the owner's GetResult, was answered with the error
\* that the dataset has not been upgraded.
C17_Witness ==
    /\ last.op = "GetResult"
    /\ last.result = "NotUpgraded"
    /\ version = V1
    /\ last.id \in DOMAIN elections
    /\ elections[last.id].owner = last.actor
    /\ disk = Memory

\* C18 as stated: every persist that succeeds - at startup, after a handler
\* of this guild, after a handler of another guild - writes the guild's
\* dataset in the latest shape.
C18_PersistWritesLatest ==
    [][ (last'.op \in PersistingOps \cup {"main", "other guild"}
            /\ last'.result = "Ok")
            => disk'.version = V2
      ]_vars

\* What the code does: a persist that succeeds writes the dataset in the
\* shape the memory holds it in, which is the latest after a handler of
\* this guild.
C18_PersistWritesShapeHeld ==
    [][ (last'.op \in PersistingOps \cup {"main", "other guild"}
            /\ last'.result = "Ok")
            => /\ disk' = Memory'
               /\ last'.op \in PersistingOps => disk'.version = V2
      ]_vars

\* A handler of another guild has persisted while this guild's dataset,
\* loaded from a file of version 1, was still held in that shape: the file
\* written holds version 1.
C18_Witness ==
    /\ last.op = "other guild"
    /\ version = V1
    /\ disk.version = V1
    /\ hourly = {ToDigits(0), ToDigits(1)}

\* ------------------------------------------------------------------------
\* The id counters
\* ------------------------------------------------------------------------

ReservationCases ==
    {ReserveAll(new(1, offices), regions) :
        offices \in 0..2, regions \in SeqsUpTo(Regions, 2)}

\* reserve_office returns false and leaves the list as it is when the
\* reservation would exceed the offices, and otherwise appends the region.
RefusesBeyondOffices ==
    \A e \in ReservationCases, region \in Regions :
        LET reserved == reserve_office(e, region)
        IN IF Len(e.reserved_offices) + 1 > e.offices
           THEN ~reserved.ok /\ reserved.election = e
           ELSE /\ reserved.ok
                /\ reserved.election.reserved_offices =
                        Append(e.reserved_offices, region)
                /\ reserved.election.offices = e.offices

\* C20: reserve_office refuses the reservation that would exceed the
\* offices; every election in the store has at most as many reserved
\* offices as offices; and no step - a vote started, ranked, ended or
\* voided, a result computed - changes the offices or the reservations of
\* an election in the store.
C20_ReservationsWithinOffices ==
    [][ /\ RefusesBeyondOffices
        /\ \A id \in DOMAIN elections' :
            Len(elections'[id].reserved_offices) <= elections'[id].offices
        /\ \A id \in DOMAIN elections \cap DOMAIN elections' :
            /\ elections'[id].offices = elections[id].offices
            /\ elections'[id].reserved_offices = elections[id].reserved_offices
      ]_vars

\* The election holds a ballot and its owner has been shown who is elected:
\* votes, tally and assign have run, and the election has its one
\* reservation for two offices.
C20_Witness ==
    /\ last.op = "GetResult"
    /\ last.result = "Ok"
    /\ last.shown # None
    /\ last.shown.kind = Elected(<<>>).kind
    /\ 0 \in DOMAIN elections
    /\ elections[0].ballots # EmptyMap
    /\ elections[0].offices = 2
    /\ elections[0].reserved_offices = <<<<"A">>>>

\* ------------------------------------------------------------------------
\* One candidate per interaction
\* ------------------------------------------------------------------------

\* The step is a SelectVote or a SkipVote that select_vote served on a live
\* session.
RankStep == last'.op \in {"SelectVote", "SkipVote"}

\* The session's partial ballot after the step: the session's if it is in
\* the store, and else the ballot stored for the session's voter.
PartialAfter ==
    IF last'.id \in DOMAIN votes' THEN votes'[last'.id].partial_ballot
    ELSE LET ballots == elections'[votes[last'.id].election].ballots
         IN IF votes[last'.id].user \in DOMAIN ballots
            THEN ballots[votes[last'.id].user]
            ELSE EmptyMap

\* Ballot b is ballot a with one more entry, for name n.
ExtendedBy(a, b, n) ==
    /\ n \notin DOMAIN a
    /\ DOMAIN b = DOMAIN a \cup {n}
    /\ \A m \in DOMAIN a : b[m] = a[m]

\* The session of the step is complete: it has left the store and its
\* voter's ballot is stored.
SessionCompleted ==
    /\ last'.id \notin DOMAIN votes'
    /\ votes[last'.id].user \in
            DOMAIN elections'[votes[last'.id].election].ballots

\* C21 as stated: each SelectVote or SkipVote on a live session adds exactly
\* one entry to the session's partial ballot, for the first candidate name
\* in name order that the partial ballot lacks, and changes no other entry;
\* and the session completes exactly when, after that, the partial ballot
\* lacks no candidate.
C21_OneEntryPerInteraction ==
    [][ RankStep =>
            /\ UnrankedBefore # <<>>
            /\ ExtendedBy(votes[last'.id].partial_ballot, PartialAfter,
                          UnrankedBefore[1])
            /\ SessionCompleted <=> Len(UnrankedBefore) = 1
      ]_vars

\* What select_vote does at a step that carries a rank or is a skip, on a
\* session that lacks a candidate: it adds the entry of the first lacking
\* candidate; when another candidate is lacking it shows that candidate's
\* prompt and changes no election; when none is, it stores the ballot and
\* removes the session, unless a call to the outside fails: the session
\* then stays, with the extended partial ballot if it was the edit of the
\* session's message, and with an empty one, the ballot stored, if it was
\* the edit of the election's message.
C21_AdvanceByCases ==
    [][ (RankStep /\ UnrankedBefore # <<>> /\ RankOfStep \notin {None, Panic}) =>
            LET extended == Insert(votes[last'.id].partial_ballot,
                                   UnrankedBefore[1], RankOfStep.value)
            IN /\ (Completed(last'.result) /\ Len(UnrankedBefore) >= 2) =>
                    /\ last'.id \in DOMAIN votes'
                    /\ votes'[last'.id].partial_ballot = extended
                    /\ elections' = elections
                    /\ last'.shown = RankPrompt(UnrankedBefore[2])
               /\ (Completed(last'.result) /\ Len(UnrankedBefore) = 1) =>
                    /\ SessionCompleted
                    /\ PartialAfter = extended
               /\ last'.result = "SendFailed" =>
                    /\ last'.id \in DOMAIN votes'
                    /\ votes'[last'.id].partial_ballot = extended
                    /\ elections' = elections
               /\ last'.result = "UpdateFailed" =>
                    /\ Len(UnrankedBefore) = 1
                    /\ last'.id \in DOMAIN votes'
                    /\ votes'[last'.id].partial_ballot = EmptyMap
                    /\ BallotStored
      ]_vars

\* The rank of a session's last candidate has been recorded and the edit of
\* the session's message has failed: the partial ballot lacks no candidate
\* and the session is in the store, no ballot stored.
C21_Witness ==
    /\ last.op \in {"SelectVote", "SkipVote"}
    /\ last.result = "SendFailed"
    /\ last.id \in DOMAIN votes
    /\ DOMAIN votes[last.id].partial_ballot
            = DOMAIN ElectionOf(last.id).candidates
    /\ \A id \in DOMAIN elections : elections[id].ballots = EmptyMap

\* ------------------------------------------------------------------------
\* The lock
\* ------------------------------------------------------------------------

\* The dataset as the handlers read and write it, in memory and on disk.
DatasetVars ==
    <<next_election_id, elections, next_vote_id, votes, version, disk, hourly>>

\* Task t is between the first read of a mutating handler and the drop of
\* its guard; task t is inside get_result.
Mutating(t) == lockRun.task[t].pc \in MutatingPcs

Reading(t) == lockRun.task[t].pc \in ReadingPcs

\* A task inside a mutating handler holds the write guard and no other
\* guard is out; a task inside get_result holds a read guard and no write
\* guard is out.
GuardsHeld ==
    \A t \in Tasks :
        /\ Mutating(t) =>
            /\ lockRun.writer = t
            /\ lockRun.readers = {}
            /\ \A u \in Tasks \ {t} : ~Mutating(u) /\ ~Reading(u)
        /\ Reading(t) => (lockRun.writer = 0 /\ t \in lockRun.readers)

\* C22: every mutating operation holds the write lock from before its first
\* read of the dataset to after its outbound calls and its persist, and
\* GetResult holds the read lock only: a step that changes the dataset, in
\* memory or on disk, is a step of the task that holds the write guard
\* before and after it; while a task is inside a mutating handler no other
\* task takes a step inside a handler, so that no two mutating operations
\* interleave and get_result never reads a dataset a handler is at work on;
\* and get_result changes nothing.
C22_WriteLockHeld ==
    /\ []GuardsHeld
    /\ [][ LET t == lockRun'.turn
           IN /\ DatasetVars' # DatasetVars =>
                    /\ lockRun.writer = t
                    /\ lockRun'.writer = t
                    /\ Mutating(t)
              /\ \A u \in Tasks \ {t} :
                    Mutating(u) =>
                        /\ lockRun'.task[t].pc = "idle"
                        /\ lockRun.task[t].pc = "idle"
              /\ Reading(t) => DatasetVars' = DatasetVars
         ]_vars

\* A task has stored a voter's ballot and awaits the edit of the election's
\* message, the session not yet removed and nothing persisted: it holds the
\* write guard, and the other task, which served an event before, is idle.
C22_Witness ==
    \E t \in Tasks :
        /\ lockRun.task[t].pc = "update"
        /\ lockRun.task[t].action.ty \in {"SelectVote", "SkipVote"}
        /\ lockRun.writer = t
        /\ lockRun.task[t].action.id \in DOMAIN votes
        /\ disk.elections # elections
        /\ lockRun.served >= 2
        /\ \A u \in Tasks \ {t} : lockRun.task[u].pc = "idle"

\* Two tasks are inside get_result at the same time, each with a read
\* guard, after a mutating operation was served.
C22_WitnessReaders ==
    /\ lockRun.readers = Tasks
    /\ \A t \in Tasks : lockRun.task[t].pc = "answered"
    /\ last.op \in PersistingOps

\* ------------------------------------------------------------------------
\* Persist after a change
\* ------------------------------------------------------------------------

\* What the handlers change in memory: the elections with their ballots, and
\* the sessions with their partial ballots.
MemoryVars == <<elections, votes>>

\* C23 as stated: whenever an operation has changed the dataset in memory (a
\* session created or removed, a partial ballot extended, a ballot stored or
\* deleted, an election inserted), persist is invoked before the operation
\* ends, also when a later step of the operation (an election lookup, an
\* outbound call) fails.
C23_PersistAfterMutation ==
    [][ (last'.op \in SweepingOps /\ MemoryVars' # MemoryVars)
            => Completed(last'.result)
      ]_vars

\* What the code does: persist is invoked exactly when the handler returned
\* Ok; after a handler that returned an error the file is as it was,
\* whatever the handler changed in memory.
C23_PersistIffHandlerOk ==
    [][ last'.op \in SweepingOps =>
            /\ last'.result = "Ok" => disk' = Memory'
            /\ last'.result # "Ok" => disk' = disk
      ]_vars

\* A VoidBallot has removed the ballot of its sender and an outbound call
\* after that has failed: the session is in the store, and the file, which
\* no persist has rewritten, holds the ballot.
C23_Witness ==
    /\ last.op = "VoidBallot"
    /\ last.result \in {"SendFailed", "UpdateFailed"}
    /\ last.id \in DOMAIN votes
    /\ LET id == votes[last.id].election
       IN /\ last.actor \notin DOMAIN elections[id].ballots
          /\ id \in DOMAIN disk.elections
          /\ last.actor \in DOMAIN disk.elections[id].ballots

\* ------------------------------------------------------------------------
\* The four backup generations
\* ------------------------------------------------------------------------

\* The step is a persist made when the data file existed.
SnapshotStep ==
    /\ snapshotRun'.persists = snapshotRun.persists + 1
    /\ snapshotRun.files.primary # None

\* The content of the backup this persist made in a folder, None when the
\* folder has no file of the key.
BackupOf(folder, key) ==
    IF ToDigits(key) \in DOMAIN folder THEN Some(folder[ToDigits(key)]) ELSE None

\* C24 as stated: in every successful persist the copies into bku/history,
\* bku/hourly, bku/daily and bku/monthly are made before the data file is
\* overwritten: each of the four holds the content the data file had before
\* this persist.
C24_FourSnapshotsHoldPrevious ==
    [][ SnapshotStep =>
            LET ts == snapshotRun.time
                before == snapshotRun.files.primary
                after == snapshotRun'.files
            IN /\ BackupOf(after.history, ts) = before
               /\ BackupOf(after.hourly, HourKey(ts)) = before
               /\ BackupOf(after.daily, DayKey(ts)) = before
               /\ BackupOf(after.monthly, MonthKey(ts)) = before
      ]_vars

\* C24 amended: in every successful persist the copy into bku/history is
\* made before the data file is overwritten and holds the content the file
\* had before this persist (no copy when there was no file); the copies
\* into bku/hourly, bku/daily and bku/monthly are made after it and hold
\* the content this persist has written.
C24_HistoryHoldsPrevious ==
    [][ snapshotRun'.persists = snapshotRun.persists + 1 =>
            LET ts == snapshotRun.time
                before == snapshotRun.files.primary
                after == snapshotRun'.files
            IN /\ after.primary = Some(snapshotRun.revision)
               /\ before # None => BackupOf(after.history, ts) = before
               /\ before = None => after.history = snapshotRun.files.history
               /\ BackupOf(after.hourly, HourKey(ts)) = after.primary
               /\ BackupOf(after.daily, DayKey(ts)) = after.primary
               /\ BackupOf(after.monthly, MonthKey(ts)) = after.primary
      ]_vars

\* persist has run on a changed dataset a second after it ran before: the
\* file of this second in bku/history holds the earlier content, and the
\* files of bku/hourly, bku/daily and bku/monthly hold the new one.
C24_Witness ==
    /\ snapshotRun.pc = "run"
    /\ snapshotRun.persists >= 2
    /\ snapshotRun.time = StartSecond + 1
    /\ snapshotRun.files.primary = Some(snapshotRun.revision)
    /\ BackupOf(snapshotRun.files.history, snapshotRun.time)
            = Some(snapshotRun.revision - 1)
    /\ BackupOf(snapshotRun.files.hourly, HourKey(snapshotRun.time))
            = snapshotRun.files.primary
    /\ BackupOf(snapshotRun.files.daily, DayKey(snapshotRun.time))
            = snapshotRun.files.primary
    /\ BackupOf(snapshotRun.files.monthly, MonthKey(snapshotRun.time))
            = snapshotRun.files.primary

\* ------------------------------------------------------------------------
\* The range of the ranks
\* ------------------------------------------------------------------------

\* The ranks the menu offers.
MenuRanks == 1..5

\* Every rank of a ballot is 0 or a rank of the menu.
RanksWithin(ballot) == \A n \in DOMAIN ballot : ballot[n] \in {0} \cup MenuRanks

\* C25 as stated: every rank in a partial ballot and in a stored ballot is
\* 0 or one of 1..5; a rank 0 is recorded by a skip only; and a selection
\* that carries a number outside 1..5 records nothing.
C25_RanksValidated ==
    /\ [](/\ \A v \in DOMAIN votes : RanksWithin(votes[v].partial_ballot)
          /\ \A id \in DOMAIN elections :
                \A u \in DOMAIN elections[id].ballots :
                    RanksWithin(elections[id].ballots[u]))
    /\ [][ (RankStep /\ last'.kind.select) =>
                \/ DigitsValue(last'.kind.value) \in MenuRanks
                \/ /\ elections' = elections
                   /\ last'.id \in DOMAIN votes'
                   /\ votes'[last'.id].partial_ballot
                        = votes[last'.id].partial_ballot
         ]_vars

\* What the code does: a selection records the number its value parses to,
\* whatever the number; the values of the menu's options parse to 1..5.
C25_RanksAreParsedValues ==
    [][ /\ \A v \in vote_menu : ParseUsize(v) \in {Some(r) : r \in MenuRanks}
        /\ (RankStep /\ last'.kind.select /\ UnrankedBefore # <<>>
                /\ last'.result # "UpdateFailed") =>
            PartialAfter[UnrankedBefore[1]] = DigitsValue(last'.kind.value)
      ]_vars

\* A session was completed by selections that carried 100 and 0: the
\* voter's stored ballot holds the rank 100, and a rank 0 no skip recorded.
C25_Witness ==
    /\ last.op = "SelectVote"
    /\ last.result = "Ok"
    /\ last.shown = ThankYou
    /\ \E id \in DOMAIN elections :
        /\ 2 \in DOMAIN elections[id].ballots
        /\ elections[id].ballots[2] = (NameA :> 100 @@ NameB :> 0)

\* ------------------------------------------------------------------------
\* A vote on an election that is not there
\* ------------------------------------------------------------------------

\* The step is an event whose handler returned that the session or the
\* election was not found.
NotFoundStep == last'.op = "event" /\ last'.result = "NotFound"

\* C26 as stated: an InitiateVote whose election is not in the store is
\* answered with the not-found error and creates no session and does not
\* advance next_vote_id (no event that ends in not-found does, InitiateVote
\* being the one that can).
C26_MissingElectionChangesNothing ==
    [][ NotFoundStep =>
            /\ DOMAIN votes' \subseteq DOMAIN votes
            /\ next_vote_id' = next_vote_id
            /\ elections' = elections
      ]_vars

\* What the code does: the InitiateVote on a missing election returns the
\* not-found error after it has stored a session for that election under
\* the next vote id and advanced the counter; nothing is persisted.
C26_MissingElectionStartsSession ==
    [][ NotFoundStep =>
            /\ elections' = elections
            /\ disk' = disk
            /\ next_vote_id' # next_vote_id =>
                /\ next_vote_id' = next_vote_id + 1
                /\ next_vote_id \in DOMAIN votes'
                /\ votes'[next_vote_id].election \notin DOMAIN elections
                /\ votes'[next_vote_id].partial_ballot = EmptyMap
                /\ votes'[next_vote_id].expires_at = now + Hour
            /\ \A id \in DOMAIN votes' :
                id \in DOMAIN votes \/ id = next_vote_id
      ]_vars

\* The vote button of an election that is not in the store was clicked: the
\* not-found error came back, and the store holds a session for the missing
\* election, the counter advanced, the file as it was.
C26_Witness ==
    /\ last.op = "event"
    /\ last.result = "NotFound"
    /\ elections = EmptyMap
    /\ 0 \in DOMAIN votes
    /\ votes[0].election = 0
    /\ next_vote_id = 1
    /\ disk.next_vote_id = 0
    /\ disk.votes = EmptyMap

\* ------------------------------------------------------------------------
\* The order of tally's list
\* ------------------------------------------------------------------------

\* Score a is strictly below score b.
F32Lt(a, b) == F32Le(a, b) /\ ~F32Le(b, a)

\* The election of a run of tally with every name on a ballot a candidate,
\* one office and no reservation.
OneOffice(e) ==
    [e EXCEPT !.candidates = [n \in NamesOnBallots(e) |-> AMER],
              !.offices = 1, !.reserved_offices = <<>>]

\* C27: the list tally returns is in non-decreasing score order, and so
\* assign, which takes the candidates from the tail of the list, comes to a
\* candidate of a strictly higher score before every candidate of a
\* strictly lower one (with one unreserved office the winner has the
\* highest score); and among candidates of equal score every order can
\* come out: every ascending order of the pairs is a list tally can return.
C27_AscendingAnyTieOrder ==
    (tallyRun.pc = "done" /\ tallyRun.out # Panic) =>
        LET e == tallyRun.election
            out == tallyRun.out.value
            w == WalkOrder(out)
        IN /\ IsAscending(out)
           /\ \A i, j \in 1..Len(out) :
                F32Lt(out[i].score, out[j].score) =>
                    /\ i < j
                    /\ \E k, l \in 1..Len(w) :
                        k < l /\ w[k] = out[j].name /\ w[l] = out[i].name
           /\ out # <<>> =>
                /\ assign(OneOffice(e), out) = Some(<<out[Len(out)].name>>)
                /\ \A i \in 1..Len(out) :
                        F32Le(out[i].score, out[Len(out)].score)
           /\ {t \in Orders(Scores(e)) : IsAscending(t)}
                = {r.value : r \in tally(e)}

\* tally has returned, for an election whose two candidates have equal
\* scores, the list with the later name first.
C27_Witness ==
    /\ tallyRun.pc = "done"
    /\ tallyRun.out # Panic
    /\ Len(tallyRun.out.value) = 2
    /\ tallyRun.out.value[1].name = NameB
    /\ tallyRun.out.value[2].name = NameA
    /\ tallyRun.out.value[1].score = tallyRun.out.value[2].score
    /\ Cardinality(DOMAIN tallyRun.election.ballots) = 2

\* tally has returned, for an election whose candidates have different
\* scores, the list with the lower score first.
C27_WitnessOrdered ==
    /\ tallyRun.pc = "done"
    /\ tallyRun.out # Panic
    /\ Len(tallyRun.out.value) = 2
    /\ F32Lt(tallyRun.out.value[1].score, tallyRun.out.value[2].score)
    /\ tallyRun.out.value[1].name = NameB

\* ------------------------------------------------------------------------
\* run on the elections of the protocol
\* ------------------------------------------------------------------------

\* C28 as stated: for every election the sessions can bring about, run
\* returns a list of winners or None and never aborts, also when a
\* candidate has nothing but abstentions on the ballots while another
\* candidate was ranked; so no GetResult ends in an abort.
C28_RunNeverAborts ==
    /\ \A id \in DOMAIN elections : Panic \notin run(elections[id])
    /\ last.op = "GetResult" => last.result # "Panic"

\* What the code does: run aborts, whatever the shuffle, exactly on the
\* elections whose ballots name two candidates or more, one of them with
\* nothing but abstentions; on every other election it returns.
C28_AbortsOnAbstainedCandidate ==
    \A id \in DOMAIN elections :
        LET e == elections[id]
            abstained == \E n \in NamesOnBallots(e) : NonAbstainers(e, n) = {}
        IN IF Cardinality(NamesOnBallots(e)) >= 2 /\ abstained
           THEN run(e) = {Panic}
           ELSE Panic \notin run(e)

\* A voter ranked one candidate and skipped the other, and the owner's
\* GetResult aborted.
C28_Witness ==
    /\ last.op = "GetResult"
    /\ last.result = "Panic"
    /\ last.id \in DOMAIN elections
    /\ last.actor = elections[last.id].owner
    /\ \E u \in DOMAIN elections[last.id].ballots :
        elections[last.id].ballots[u] = (NameA :> 5 @@ NameB :> 0)

\* ------------------------------------------------------------------------
\* A stored ballot and the sessions that complete after it
\* ------------------------------------------------------------------------

\* The step is a SelectVote or a SkipVote at which select_vote called
\* save_ballot.
StoringStep ==
    /\ last'.op \in {"SelectVote", "SkipVote"}
    /\ last'.result # "SendFailed"
    /\ Len(UnrankedBefore) <= 1

\* The session's voter had a stored ballot before the step.
VoterHadBallot == votes[last'.id].user \in DOMAIN ElectionOf(last'.id).ballots

\* C29 as stated: a voter's stored ballot is never replaced by a completing
\* session unless that session received ConfirmInitiateVote after the stored
\* ballot was submitted.
C29_ReplacedOnlyAfterConfirmation ==
    [][ (StoringStep /\ VoterHadBallot) => last'.id \in revoteRun.confirmed
      ]_vars

\* What save_ballot does at such a step: whatever ballot the voter had, and
\* whether or not the session was confirmed, the voter's ballot after the
\* step is the session's partial ballot.
C29_CompletionAlwaysReplaces ==
    [][ StoringStep =>
            LET session == votes[last'.id]
                partial_ballot ==
                    IF UnrankedBefore # <<>> /\ RankOfStep # None
                    THEN Insert(session.partial_ballot, UnrankedBefore[1],
                                RankOfStep.value)
                    ELSE session.partial_ballot
                ballots == elections'[session.election].ballots
            IN /\ session.user \in DOMAIN ballots
               /\ ballots[session.user] = partial_ballot
      ]_vars

\* User 1 started sessions 0 and 1 with no ballot and completed both, no
\* session ever received ConfirmInitiateVote: session 1 has stored its ballot
\* over the one session 0 stored.
C29_Witness ==
    /\ last.op \in {"SelectVote", "SkipVote"}
    /\ last.result = "Ok"
    /\ last.id = 1
    /\ revoteRun.pc = "run"
    /\ revoteRun.received = {}
    /\ revoteRun.submitted =
        {[user |-> 1, election |-> 0, vote_id |-> v] : v \in {0, 1}}
    /\ elections[0].ballots[1] = (NameA :> 5 @@ NameB :> 0)

\* ------------------------------------------------------------------------
\* Whose ballot a vote-scoped action changes
\* ------------------------------------------------------------------------

\* The step is a vote-scoped action that its handler served on a live
\* session.
VoteScopedStep ==
    last'.op \in {"ConfirmInitiateVote", "SelectVote", "SkipVote",
                  "CancelVote", "VoidBallot"}

\* No election but the session's changes at the step, and in the session's
\* election no ballot but those of the users in `whose`.
OnlyBallotsOf(whose) ==
    LET id == votes[last'.id].election
    IN /\ \A other \in DOMAIN elections \ {id} :
            elections'[other] = elections[other]
       /\ \A u \in Users \ whose : SameBallot(id, u)

\* C30 as stated: every vote-scoped action changes at most the ballot of
\* the voter recorded in the referenced session; no ballot of the actor, if
\* the actor is not that voter, or of any third voter is removed or altered.
C30_OnlySessionVotersBallot ==
    [][ VoteScopedStep => OnlyBallotsOf({votes[last'.id].user}) ]_vars

\* What the handlers do: ConfirmInitiateVote and VoidBallot remove the
\* ballot of the one who sent the interaction and change no other ballot,
\* whoever the session's voter is; SelectVote and SkipVote change no ballot
\* but the session's voter's; CancelVote changes no ballot.
C30_ActorsBallotRemoved ==
    [][ VoteScopedStep =>
            LET id == votes[last'.id].election
            IN /\ last'.op \in {"ConfirmInitiateVote", "VoidBallot"} =>
                    /\ last'.actor \notin DOMAIN elections'[id].ballots
                    /\ OnlyBallotsOf({last'.actor})
               /\ last'.op \in {"SelectVote", "SkipVote"} =>
                    OnlyBallotsOf({votes[last'.id].user})
               /\ last'.op = "CancelVote" => OnlyBallotsOf({})
      ]_vars

\* User 2 has sent ConfirmInitiateVote on a session of user 1 and persist
\* failed after initiate_vote returned: the file still holds user 2's ballot,
\* which the dataset in memory has lost, and the session is user 1's.
C30_Witness ==
    /\ last.op = "ConfirmInitiateVote"
    /\ last.result = "PersistFailed"
    /\ last.actor = 2
    /\ last.id \in DOMAIN votes
    /\ votes[last.id].user = 1
    /\ LET id == votes[last.id].election
       IN /\ 2 \in DOMAIN disk.elections[id].ballots
          /\ 2 \notin DOMAIN elections[id].ballots

\* ------------------------------------------------------------------------
\* The names a stored ballot ranks
\* ------------------------------------------------------------------------

\* The names ballot b ranks are exactly the candidates of election e.
RanksEveryCandidate(e, b) == DOMAIN b = DOMAIN e.candidates

\* Every name tally scores for election e is a candidate of e, so that
\* assign's candidates.get(name).unwrap() finds a region.
ScoredAreCandidates(e) == {p.name : p \in Scores(e)} \subseteq DOMAIN e.candidates

C31_BallotsRankCandidatesOnly ==
    \A id \in DOMAIN elections :
        /\ \A u \in DOMAIN elections[id].ballots :
                DOMAIN elections[id].ballots[u] \subseteq DOMAIN elections[id].candidates
        /\ ScoredAreCandidates(elections[id])

\* And of every step: a ballot that lacks a candidate is stored only by a
\* SelectVote that carries no string select, on a session that lacked
\* exactly one candidate.
C31_IncompleteOnlyWithoutSelect ==
    [][ \A id \in DOMAIN elections : \A u \in DOMAIN elections'[id].ballots :
            (/\ ~RanksEveryCandidate(elections'[id], elections'[id].ballots[u])
             /\ ~SameBallot(id, u))
            => /\ last'.op = "SelectVote"
               /\ ~last'.kind.select
               /\ votes[last'.id].user = u
               /\ Len(UnrankedBefore) = 1
      ]_vars

PromptShown == last.shown.kind = RankPrompt(NameA).kind

PromptedSession == IF last.op = "InitiateVote" THEN next_vote_id - 1 ELSE last.id

\* The step is a SelectVote or a SkipVote with a rank, on the session whose
\* message the operation before it left with a ranking prompt: nothing was
\* shown to the voter in between. The formulas below speak of such steps
\* when select_vote returned Ok.
AnswersShown ==
    /\ PromptShown
    /\ last'.op \in {"SelectVote", "SkipVote"}
    /\ last'.id = PromptedSession
    /\ RankOfStep \notin {None, Panic}

\* The prompt is the first one of the session, or was issued after a rank
\* was recorded.
PromptCovered ==
    \/ last.op \in {"InitiateVote", "ConfirmInitiateVote"}
    \/ /\ last.op \in {"SelectVote", "SkipVote"}
       /\ RegisteredRank([ty |-> last.op], last.kind) # None

AnswersPrompt == AnswersShown /\ PromptCovered

\* The step records its rank for candidate n, which the session's partial
\* ballot lacked.
RecordedFor(n) ==
    /\ n \notin DOMAIN votes[last'.id].partial_ballot
    /\ PartialAfter = Insert(votes[last'.id].partial_ballot, n, RankOfStep.value)

\* C32 as stated: the candidate named in the most recent ranking prompt
\* shown to the voter is the candidate the next SelectVote or SkipVote is
\* recorded for, whether the prompt came from InitiateVote, from
\* ConfirmInitiateVote (also on a session whose partial ballot is not empty)
\* or from a SelectVote or SkipVote.
C32_RankGoesToPromptedCandidate ==
    [][ (AnswersPrompt /\ Completed(last'.result)) =>
            RecordedFor(last.shown.name) ]_vars

\* The prompt came from an operation after which the first candidate the
\* partial ballot lacks is the one it named: an InitiateVote, a
\* ConfirmInitiateVote on a session with an empty partial ballot, or a
\* SelectVote or SkipVote that recorded a rank.
PromptAgrees ==
    \/ last.op = "InitiateVote"
    \/ /\ last.op = "ConfirmInitiateVote"
       /\ votes[PromptedSession].partial_ballot = EmptyMap
    \/ /\ last.op \in {"SelectVote", "SkipVote"}
       /\ RegisteredRank([ty |-> last.op], last.kind) # None

\* What the handlers do: the rank always goes to the first candidate, in
\* name order, that the partial ballot lacks; initiate_vote always names the
\* election's first candidate and select_vote the second candidate the
\* partial ballot lacked; so the rank goes to the candidate the prompt named
\* when the prompt came from an operation as above, and to another candidate
\* when it came from a ConfirmInitiateVote on a session that had ranked the
\* first candidate; and to none, the partial ballot staying as it was, when
\* that session lacked no candidate.
C32_RankGoesToFirstLacking ==
    [][ /\ (AnswersShown /\ Completed(last'.result)) =>
            IF UnrankedBefore = <<>>
            THEN /\ last.op = "ConfirmInitiateVote"
                 /\ PartialAfter = votes[last'.id].partial_ballot
            ELSE /\ RecordedFor(UnrankedBefore[1])
                 /\ PromptAgrees => UnrankedBefore[1] = last.shown.name
                 /\ (last.op = "ConfirmInitiateVote"
                         /\ votes[last'.id].partial_ballot # EmptyMap)
                     => UnrankedBefore[1] # last.shown.name
        /\ last'.shown.kind = RankPrompt(NameA).kind =>
            IF last'.op \in {"SelectVote", "SkipVote"}
            THEN last'.shown.name = UnrankedBefore[2]
            ELSE /\ last'.op \in {"InitiateVote", "ConfirmInitiateVote"}
                 /\ last'.shown.name =
                        SortedNames(DOMAIN elections'[
                            IF last'.op = "InitiateVote" THEN last'.id
                            ELSE votes[last'.id].election].candidates)[1]
      ]_vars

\* A ConfirmInitiateVote has arrived for a live session whose partial ballot
\* ranks candidate a: the message shows the prompt for a, and the next rank
\* will be recorded for b.
C32_Witness ==
    /\ last.op = "ConfirmInitiateVote"
    /\ last.result = "Ok"
    /\ last.shown = RankPrompt(NameA)
    /\ last.id \in DOMAIN votes
    /\ DOMAIN votes[last.id].partial_ballot = {NameA}
    /\ Unranked(SortedNames(DOMAIN ElectionOf(last.id).candidates),
                votes[last.id].partial_ballot) = <<NameB>>

\* ------------------------------------------------------------------------
\* An election command with an empty reserved_offices
\* ------------------------------------------------------------------------

\* The step is an election command with an empty reserved_offices that
\* created an election.
UnreservedCommandStep ==
    /\ commandRun.pc \in DOMAIN commandRun.cmds
    /\ CommandOf.reserved_offices = <<>>
    /\ Completed(last'.result)

\* The election the step created.
CreatedElection == elections'[next_election_id]

\* Election e after one voter has ranked every candidate 5: every candidate
\* is scored.
AllScored(e) ==
    [e EXCEPT !.ballots = Insert(EmptyMap, 1, [n \in DOMAIN e.candidates |-> 5])]

\* run returns officers for e whatever order tally's shuffle leaves.
Feasible(e) == \A out \in run(e) : out \notin {None, Panic}

\* C33 as stated: election creation with an empty reserved_offices and
\* offices >= 1 yields an election with zero reserved offices, which is
\* feasible whenever at least as many candidates as offices are scored.
C33_EmptyTextReservesNothing ==
    [][ UnreservedCommandStep =>
            /\ CreatedElection.reserved_offices = <<>>
            /\ Cardinality(DOMAIN CreatedElection.candidates)
                    >= CreatedElection.offices
                => Feasible(AllScored(CreatedElection))
      ]_vars

\* What the command does: the empty text splits into one empty piece, so one
\* office is reserved for the region with the empty name and offices - 1 are
\* unreserved; with one office and no candidate of that region, run returns
\* None although every candidate is scored.
C33_EmptyTextReservesEmptyRegion ==
    [][ UnreservedCommandStep =>
            /\ Split(CommandOf.reserved_offices, ",") = << <<>> >>
            /\ CreatedElection.reserved_offices = << <<>> >>
            /\ (/\ CreatedElection.offices = 1
                /\ \A n \in DOMAIN CreatedElection.candidates :
                        CreatedElection.candidates[n] # <<>>)
                => run(AllScored(CreatedElection)) = {None}
      ]_vars

\* A command with an empty reserved_offices, one office and candidate a of
\* region A has created election 0: its one office is reserved for the
\* region with the empty name and run elects nobody.
C33_Witness ==
    /\ commandRun.pc = 2
    /\ commandRun.cmds[1].reserved_offices = <<>>
    /\ commandRun.cmds[1].offices = 1
    /\ commandRun.cmds[1].candidates = <<"a", ";", "A">>
    /\ last.result = "Ok"
    /\ 0 \in DOMAIN elections
    /\ elections[0].reserved_offices = << <<>> >>
    /\ run(AllScored(elections[0])) = {None}

=========================================================================
